---- MODULE Spec2Model ----
(***************************************************************************)
(* Chimera Gear: Text Edition -- verification model of the simulation core *)
(* (TextBattleEngine, GeneticEngine, PedigreeSystem, mathUtils,            *)
(* EnemyEvolution) and of the store / panel handlers that guard it.        *)
(*                                                                         *)
(* Numbers are fixed point:                                                *)
(*   HP, attack, damage     thousandths      (1 HP = 1000)                 *)
(*   time, cooldown         centiseconds     (0.1 s = 10)                  *)
(*   genes                  thousandths      (1.0 = 1000)                  *)
(*   resistances            hundredths       (1.0 = 100)                   *)
(*   trait ratios           thousandths      (0.20 = 200)                  *)
(***************************************************************************)
EXTENDS Integers, Sequences, FiniteSets, TLC

Max(a, b) == IF a >= b THEN a ELSE b
Min(a, b) == IF a <= b THEN a ELSE b

\* Math.round(n / d) for n >= 0, d > 0 (round half up)
RoundDiv(n, d) == (2 * n + d) \div (2 * d)

\* Math.round(x * 10) / 10 where x = n / d thousandths; result in thousandths
RoundTenth(n, d) == 100 * ((n + 50 * d) \div (100 * d))

Range(s) == {s[i] : i \in DOMAIN s}

(***************************************************************************)
(* ================================ State ================================ *)
(***************************************************************************)

\* one call of TextBattleEngine.runBattle
VARIABLES
    sc,             \* the arguments of this runBattle call
    time,           \* let time (centiseconds)
    wHp, eHp,       \* weapon.currentHp, enemy.currentHp
    wCd, eCd,       \* weapon.cooldown, enemy.cooldown
    wAtk, wDef,     \* weapon.stats.attack / defense (mutated by berserk)
    berserkActive,
    pc,             \* position inside runBattle
    endLogs,        \* kinds of the terminal log entries pushed so far
    logs,           \* time, actor and kind of every entry pushed to logs
    ticks,          \* loop iterations entered
    acts,           \* executeAction calls made
    result          \* the returned BattleResult

battleVars == << sc, time, wHp, eHp, wCd, eCd, wAtk, wDef, berserkActive,
                 pc, endLogs, logs, ticks, acts, result >>

\* one call of GeneticEngine.breed or of createStageGenome
VARIABLES
    bsc,          \* the arguments of breed
    stageArg,     \* the argument of createStageGenome (0: breed is being called)
    bpc,          \* position in breed / createStageGenome
    childGenome,  \* breed's childGenome
    lockedGenes,  \* breed's lockedGenes (reassigned when inbred)
    inbreed,      \* the InbreedResult
    crossOut,     \* what crossover returned
    mutOut,       \* what mutate returned
    mutated,      \* the indices mutate changed
    child,        \* what breed returned
    stageGenome   \* what createStageGenome returned

breedVars == << bsc, stageArg, bpc, childGenome, lockedGenes, inbreed, crossOut, mutOut,
                mutated, child, stageGenome >>

\* applySoftCap applied twice to one genome
VARIABLES
    capIn,     \* the genome given
    capOnce,   \* applySoftCap(capIn)
    capTwice,  \* applySoftCap(applySoftCap(capIn))
    cpc        \* how often it has been applied

capVars == << capIn, capOnce, capTwice, cpc >>

\* one EnemyEvolution instance
VARIABLES
    bestAncestors,  \* the archive of defeated enemies
    logged          \* how many deaths were logged, by fitness

archiveVars == << bestAncestors, logged >>

\* useGameStore, and the local state of DatabasePanel and BreedingLab
VARIABLES
    inventory,          \* store: the items
    equippedWeapon,     \* store: a copy of the equipped item, or NoItem
    geneEnergy,         \* store: EP
    materials,          \* store: shards by type
    crystallizedItems,  \* store: the crystals
    selectedIds,        \* DatabasePanel: ids ticked for decomposition
    labParentA,            \* BreedingLab: copy of the first parent, or NoItem
    labParentB,            \* BreedingLab: copy of the second parent, or NoItem
    labLockedGenes,     \* BreedingLab: lockedGenes
    bred,               \* breed transactions that went through
    battles             \* battles won

storeVars == << inventory, equippedWeapon, geneEnergy, materials, crystallizedItems,
                selectedIds, labParentA, labParentB, labLockedGenes, bred, battles >>

\* a sequence of updateMastery calls on the store
VARIABLES
    lastItemId,     \* the itemId of the last updateMastery call
    lastFitness,    \* the fitness of the last updateMastery call
    masteryCalls    \* how many updateMastery calls were made

masteryVars == << lastItemId, lastFitness, masteryCalls >>

\* one call of boostResistance
VARIABLES
    boostGenome,    \* the genome given
    boostElement,   \* the element given
    boostAmount,    \* the amount given
    boosted,        \* the genome returned
    rpc             \* "call" before the call, "done" after it

boostVars == << boostGenome, boostElement, boostAmount, boosted, rpc >>

\* the rest of one EnemyEvolution instance (its archive is bestAncestors)
VARIABLES
    generationCount,        \* EnemyEvolution.generationCount
    playerElementDamage,    \* the Map, as its entries in insertion order
    spawned,                \* what the last spawnEnemy / spawnBoss returned, and the boost it applied
    spawns,                 \* how many enemies were spawned
    report                  \* the last CounterReport

evoVars == << generationCount, playerElementDamage, spawned, spawns, report >>

\* one call of applyTraits
VARIABLES
    traitsIn,       \* the trait list given
    traitsOut,      \* activeTraits and lostTraits returned, with the evictions made
    tpc             \* "call" before the call, "done" after it

traitVars == << traitsIn, traitsOut, tpc >>

\* one call of applyMod inside applyTraits
VARIABLES
    stackValues,    \* the values collected for one stat, hundredths
    stackIsBonus,   \* the isBonus argument
    finalVal,       \* the modifier computed, a fraction
    mpc             \* "call" before the call, "done" after it

stackVars == << stackValues, stackIsBonus, finalVal, mpc >>

\* one call of selectParent
VARIABLES
    population,     \* the population given
    selected,       \* what the call did: the item returned or the error thrown
    qpc             \* "call" before the call, "done" after it

selectVars == << population, selected, qpc >>

\* one call of FastSimulator.simulate
VARIABLES
    battleCount,        \* the battleCount argument
    simI,               \* the loop counter i
    simWins,            \* wins
    totalDamageRatio,   \* totalDamageRatio, hundredths
    simResult,          \* the SimulationResult returned
    fpc                 \* "loop" inside the for loop, "done" after the return

simVars == << battleCount, simI, simWins, totalDamageRatio, simResult, fpc >>

\* one call of FitnessCalculator.calculate
VARIABLES
    battleResult,   \* the BattleResult given
    breakdown,      \* the FitnessBreakdown returned
    kpc             \* "call" before the call, "done" after it

fitVars == << battleResult, breakdown, kpc >>

\* a chain of breedings seen by PedigreeSystem
VARIABLES
    herd            \* the items so far, oldest first: parentIds, ancestorIds, breedCount

pedigreeVars == << herd >>

\* a sequence of breedTransaction calls on the store
VARIABLES
    txArgs,     \* the arguments of the last breedTransaction call
    txReturn,   \* what the last breedTransaction call returned
    txCalls     \* how many breedTransaction calls were made

txVars == << txArgs, txReturn, txCalls >>

\* the inventory category of the items, kept beside the items
VARIABLES
    category,   \* item id -> category, for the items moveToCategory has moved
    moves       \* how many moveToCategory calls were made

categoryVars == << category, moves >>

\* applyTraits called on a trait list and on a reordering of it
VARIABLES
    orderTraits,        \* the trait list given
    orderPermuted,      \* the same traits in another order
    orderBerserk,       \* berserkActive
    orderStats,         \* stats returned for orderTraits
    orderStatsPermuted, \* stats returned for orderPermuted
    opc                 \* "call" | "done"

orderVars == << orderTraits, orderPermuted, orderBerserk, orderStats, orderStatsPermuted, opc >>

\* stage progression: the store fields and the stage runs of BattleStatsPanel
VARIABLES
    stage,              \* store.stage
    maxClearedStage,    \* store.maxClearedStage
    isBreedingPhase,    \* store.isBreedingPhase
    stageSummary,       \* "none", or the cleared flag of store.stageSummary
    activeTab,          \* store.activeTab
    clearedRuns,        \* the stages of which a run cleared every wave
    stageRuns           \* how many stage runs were made

stageVars == << stage, maxClearedStage, isBreedingPhase, stageSummary, activeTab,
                clearedRuns, stageRuns >>

\* what the actions of one part of the program leave alone
notBattle == << breedVars, capVars, archiveVars, storeVars, masteryVars, boostVars, evoVars, traitVars, stackVars, selectVars, simVars, fitVars, pedigreeVars, txVars, categoryVars, orderVars, stageVars >>
notBreed == << battleVars, capVars, archiveVars, storeVars, masteryVars, boostVars, evoVars, traitVars, stackVars, selectVars, simVars, fitVars, pedigreeVars, txVars, categoryVars, orderVars, stageVars >>
notCap == << battleVars, breedVars, archiveVars, storeVars, masteryVars, boostVars, evoVars, traitVars, stackVars, selectVars, simVars, fitVars, pedigreeVars, txVars, categoryVars, orderVars, stageVars >>
notArchive == << battleVars, breedVars, capVars, storeVars, masteryVars, boostVars, evoVars, traitVars, stackVars, selectVars, simVars, fitVars, pedigreeVars, txVars, categoryVars, orderVars, stageVars >>
notStore == << battleVars, breedVars, capVars, archiveVars, masteryVars, boostVars, evoVars, traitVars, stackVars, selectVars, simVars, fitVars, pedigreeVars, txVars, categoryVars, orderVars, stageVars >>
\* an updateMastery call changes the store and the record of the call
notStoreMastery == << battleVars, breedVars, capVars, archiveVars, boostVars, evoVars, traitVars, stackVars, selectVars, simVars, fitVars, pedigreeVars, txVars, categoryVars, orderVars, stageVars >>
notBoost == << battleVars, breedVars, capVars, archiveVars, storeVars, masteryVars, evoVars, traitVars, stackVars, selectVars, simVars, fitVars, pedigreeVars, txVars, categoryVars, orderVars, stageVars >>
notEvo == << battleVars, breedVars, capVars, archiveVars, storeVars, masteryVars, boostVars, traitVars, stackVars, selectVars, simVars, fitVars, pedigreeVars, txVars, categoryVars, orderVars, stageVars >>
notTrait == << battleVars, breedVars, capVars, archiveVars, storeVars, masteryVars, boostVars, evoVars, stackVars, selectVars, simVars, fitVars, pedigreeVars, txVars, categoryVars, orderVars, stageVars >>
notStack == << battleVars, breedVars, capVars, archiveVars, storeVars, masteryVars, boostVars, evoVars, traitVars, selectVars, simVars, fitVars, pedigreeVars, txVars, categoryVars, orderVars, stageVars >>
notSelect == << battleVars, breedVars, capVars, archiveVars, storeVars, masteryVars, boostVars, evoVars, traitVars, stackVars, simVars, fitVars, pedigreeVars, txVars, categoryVars, orderVars, stageVars >>
notSim == << battleVars, breedVars, capVars, archiveVars, storeVars, masteryVars, boostVars, evoVars, traitVars, stackVars, selectVars, fitVars, pedigreeVars, txVars, categoryVars, orderVars, stageVars >>
notFit == << battleVars, breedVars, capVars, archiveVars, storeVars, masteryVars, boostVars, evoVars, traitVars, stackVars, selectVars, simVars, pedigreeVars, txVars, categoryVars, orderVars, stageVars >>
notPedigree == << battleVars, breedVars, capVars, archiveVars, storeVars, masteryVars, boostVars, evoVars, traitVars, stackVars, selectVars, simVars, fitVars, txVars, categoryVars, orderVars, stageVars >>
\* a breedTransaction call changes the store and the record of the call
notStoreTx == << battleVars, breedVars, capVars, archiveVars, masteryVars, boostVars, evoVars, traitVars, stackVars, selectVars, simVars, fitVars, pedigreeVars, categoryVars, orderVars, stageVars >>
notTx == << battleVars, breedVars, capVars, archiveVars, storeVars, masteryVars, boostVars, evoVars, traitVars, stackVars, selectVars, simVars, fitVars, pedigreeVars, categoryVars, orderVars, stageVars >>
notCategory == << battleVars, breedVars, capVars, archiveVars, storeVars, masteryVars, boostVars, evoVars, traitVars, stackVars, selectVars, simVars, fitVars, pedigreeVars, txVars, orderVars, stageVars >>
notOrder == << battleVars, breedVars, capVars, archiveVars, storeVars, masteryVars, boostVars, evoVars, traitVars, stackVars, selectVars, simVars, fitVars, pedigreeVars, txVars, categoryVars, stageVars >>
notStage == << battleVars, breedVars, capVars, archiveVars, storeVars, masteryVars, boostVars, evoVars, traitVars, stackVars, selectVars, simVars, fitVars, pedigreeVars, txVars, categoryVars, orderVars >>

vars == << battleVars, breedVars, capVars, archiveVars, storeVars, masteryVars, boostVars, evoVars, traitVars, stackVars, selectVars, simVars, fitVars, pedigreeVars, txVars, categoryVars, orderVars, stageVars >>


(***************************************************************************)
(* ======================= TextBattleEngine.runBattle ==================== *)
(***************************************************************************)

\* ---- bounds of the explored inputs ----
\* longest maxTime (centiseconds) of the scenarios with attacking combatants
MaxTimeCs == 60

\* ---- program constants ----
tickInterval == 10
DefaultMaxTime == 3000
EnemyInitialCooldown == 30

\* MUTATION_SKILLS: damageMultiplier in tenths, forced element ("" = actor's)
MUTATION_SKILLS ==
    << [mult |-> 4,  element |-> ""],
       [mult |-> 20, element |-> "Lightning"],
       [mult |-> 15, element |-> "Ice"],
       [mult |-> 15, element |-> "Fire"],
       [mult |-> 18, element |-> ""] >>

\* The combat-relevant part of TRAIT_LIBRARY, as read by getTraitCombatEffects
\* (ratios in thousandths).  No library trait carries thornDmg.
TraitEffectsOf(id) ==
    LET none == [lifesteal |-> 0, thornDmg |-> 0, dotOnHit |-> 0, hpDecayPerSec |-> 0,
                 berserkThreshold |-> 0, mutationChance |-> 0]
    IN  CASE id = "SST_003" -> [none EXCEPT !.lifesteal = 200]
          [] id = "MUT_001" -> [none EXCEPT !.mutationChance = 50]
          [] id = "MUT_002" -> [none EXCEPT !.berserkThreshold = 500]
          [] id = "MUT_004" -> [none EXCEPT !.dotOnHit = 20, !.hpDecayPerSec = 10]
          [] id = "GD_003"  -> [none EXCEPT !.hpDecayPerSec = 10]
          [] OTHER          -> none

RECURSIVE SumField(_, _)
SumField(traits, f) ==
    IF traits = << >> THEN 0
    ELSE TraitEffectsOf(Head(traits))[f] + SumField(Tail(traits), f)

RECURSIVE LastBerserk(_)
LastBerserk(traits) ==
    IF traits = << >> THEN 0
    ELSE LET t == TraitEffectsOf(traits[Len(traits)]).berserkThreshold
         IN  IF t > 0 THEN t ELSE LastBerserk(SubSeq(traits, 1, Len(traits) - 1))

getTraitCombatEffects(traits) ==
    [lifesteal          |-> SumField(traits, "lifesteal"),
     thornDmg           |-> SumField(traits, "thornDmg"),
     dotOnHit           |-> SumField(traits, "dotOnHit"),
     hpDecayPerSec      |-> SumField(traits, "hpDecayPerSec"),
     berserkThreshold   |-> LastBerserk(traits),
     selfDestructChance |-> SumField(traits, "mutationChance")]

\* ---- inputs: CombatStats as decoded (weapon: after applyTraits) ----
\* g5/g6/g7 are the genome's personality genes used by selectAction/executeAction.
WeaponProfiles ==
    { \* balanced attacker, kills a 50 HP enemy in one or two hits
      [attack |-> 30000, attackSpeed |-> 20, element |-> "Fire", special |-> "homing",
       maxHp |-> 10000, defense |-> 5000, fireResist |-> 0, iceResist |-> 0,
       lightningResist |-> 100, g5 |-> 600, g6 |-> 300, g7 |-> 300],
      \* weak attacker at the attack floor of 1
      [attack |-> 1000, attackSpeed |-> 20, element |-> "Ice", special |-> "none",
       maxHp |-> 20000, defense |-> 8400, fireResist |-> 50, iceResist |-> 50,
       lightningResist |-> 40, g5 |-> 500, g6 |-> 0, g7 |-> 0] }

PassiveWeapon ==
      [attack |-> 1000, attackSpeed |-> 130, element |-> "Ice", special |-> "none",
       maxHp |-> 10000, defense |-> 8400, fireResist |-> 50, iceResist |-> 50,
       lightningResist |-> 40, g5 |-> 0, g6 |-> 400, g7 |-> 0]

EnemyProfiles ==
    { [attack |-> 5000, attackSpeed |-> 30, element |-> "Fire", special |-> "none",
       maxHp |-> 50000, defense |-> 5000, fireResist |-> 0, iceResist |-> 0,
       lightningResist |-> 100, g5 |-> 500, g6 |-> 200, g7 |-> 0],
      [attack |-> 12000, attackSpeed |-> 24, element |-> "Lightning", special |-> "piercing",
       maxHp |-> 60000, defense |-> 10000, fireResist |-> 100, iceResist |-> 100,
       lightningResist |-> 0, g5 |-> 300, g6 |-> 0, g7 |-> 500] }

PassiveEnemy ==
      [attack |-> 0, attackSpeed |-> 150, element |-> "Fire", special |-> "none",
       maxHp |-> 50000, defense |-> 5000, fireResist |-> 0, iceResist |-> 0,
       lightningResist |-> 100, g5 |-> 0, g6 |-> 0, g7 |-> 0]

TraitLists ==
    { << >>, << "MUT_004" >>, << "SST_003", "MUT_002" >>, << "MUT_001", "GD_003" >> }

\* initialWeaponHp: -1 stands for null (start at maxHp)
InitialHps == { -1, 0, 5005, 20, 99000 }

MaxTimes == { 0, 25, MaxTimeCs }

Scenarios ==
    { [w |-> w, e |-> e, traits |-> t, initialWeaponHp |-> h, maxTime |-> m] :
        w \in WeaponProfiles, e \in EnemyProfiles, t \in TraitLists,
        h \in InitialHps, m \in MaxTimes }
    \cup
    { [w |-> PassiveWeapon, e |-> PassiveEnemy, traits |-> << >>,
       initialWeaponHp |-> -1, maxTime |-> DefaultMaxTime] }

NoResult == [won |-> FALSE, killTime |-> -2, weaponHpRemaining |-> -1, enemyHpRemaining |-> -1]


Reasons == {"enemy_killed", "weapon_destroyed", "weapon_self_destructed", "timeout"}

traitEffects == getTraitCombatEffects(sc.traits)

\* a BattleLogEntry: its time and actor; kind "action" for the entry executeAction
\* returns, "note" for the others
LogEntry(t, actor, kind) == [time |-> t, actor |-> actor, kind |-> kind]

\* combatant setup, weapon.stats.maxHp / Math.min(initialWeaponHp, maxHp)
InitBattle ==
    /\ sc \in Scenarios
    /\ time = 0
    /\ wHp = IF sc.initialWeaponHp # -1 THEN Min(sc.initialWeaponHp, sc.w.maxHp) ELSE sc.w.maxHp
    /\ eHp = sc.e.maxHp
    /\ wCd = 0
    /\ eCd = EnemyInitialCooldown
    /\ wAtk = sc.w.attack
    /\ wDef = sc.w.defense
    /\ berserkActive = FALSE
    /\ pc = "loop"
    /\ endLogs = << >>
    /\ logs = << LogEntry(0, "weapon", "note") >>
    /\ ticks = 0
    /\ acts = 0
    /\ result = NoResult

getResistance(stats, element) ==
    CASE element = "Fire" -> stats.fireResist
      [] element = "Ice" -> stats.iceResist
      [] OTHER -> stats.lightningResist

\* selectAction: the actions that Math.random() can select.  The weights are the
\* normalised genes 5/6/7; the low-HP amplification multiplies defWeight and
\* cannot make a zero weight positive.  With all three genes 0 the weights
\* are 0/0 and every comparison fails, which returns 'defend'.
selectAction(g5, g6, g7) ==
    IF g5 + g6 + g7 = 0 THEN {"defend"}
    ELSE (IF g5 > 0 THEN {"attack"} ELSE {})
         \cup (IF g7 > 0 THEN {"skill"} ELSE {})
         \cup (IF g6 > 0 THEN {"defend"} ELSE {})

\* executeAction: the log entries (damage dealt, heal received) one action can
\* produce over all random draws.
executeAction(action, atk, actorStats, g7, targetStats) ==
    LET elem == actorStats.element
        dmgOf(mult10, crit2, el) ==
            \* attack * multiplier * (1 - resist * 0.8), doubled on a critical hit
            RoundTenth(atk * mult10 * crit2 * (1000 - 8 * getResistance(targetStats, el)),
                       10 * 1000)
    IN  CASE action = "attack" ->
               { [damage |-> dmgOf(10, c, elem), heal |-> 0] : c \in {1, 2} }
          [] action = "skill" ->
               { [damage |-> dmgOf(13, 1, elem), heal |-> 0] }
               \cup
               (IF g7 > 0 /\ actorStats.special # "none"
                THEN { [damage |-> dmgOf(MUTATION_SKILLS[k].mult, 1,
                                         IF MUTATION_SKILLS[k].element = "" THEN elem
                                         ELSE MUTATION_SKILLS[k].element),
                        heal |-> 0] : k \in DOMAIN MUTATION_SKILLS }
                ELSE {})
          [] OTHER ->
               { [damage |-> 0, heal |-> RoundTenth(actorStats.maxHp * 5, 100)] }

\* mutant: one more tick at time = maxTime
LoopGuard_OffByOne(t, maxTime, w, e) == t <= maxTime /\ w > 0 /\ e > 0

\* while (time < maxTime && weapon.currentHp > 0 && enemy.currentHp > 0)
LoopGuard(t, maxTime, w, e) == t < maxTime /\ w > 0 /\ e > 0

\* mutant: a surviving weapon counts as a win
WonOf_Survived(w, e) == w > 0

\* const won = enemy.currentHp <= 0 && weapon.currentHp > 0
WonOf(w, e) == e <= 0 /\ w > 0

\* mutant: no death check after the weapon's action
AfterWeaponPhase_NoCheck(w, e) == "enemy"

\* where the weapon phase continues: break on a dead enemy, break before the
\* enemy phase on a dead weapon, else the enemy phase
AfterWeaponPhase(w, e) == IF e <= 0 \/ w <= 0 THEN "return" ELSE "enemy"

\* where the enemy phase continues: break on a dead weapon or enemy, else next tick
AfterEnemyPhase(w, e) == IF w <= 0 \/ e <= 0 THEN "return" ELSE "loop"

HasLog(kind) == \E i \in DOMAIN endLogs : endLogs[i] = kind

\* mutant: a cooldown of exactly 0 waits one more tick
CooldownReady_Strict(cd) == cd < 0

\* if (weapon.cooldown <= 0), if (enemy.cooldown <= 0)
CooldownReady(cd) == cd <= 0

\* mutant: the threshold is checked again after berserk is active
BerserkTrigger_Again(active, threshold, hp, maxHp) ==
    threshold > 0 /\ hp * 1000 <= threshold * maxHp

\* berserkThreshold > 0 && !berserkActive && currentHp / maxHp <= berserkThreshold
BerserkTrigger(active, threshold, hp, maxHp) ==
    threshold > 0 /\ ~active /\ hp * 1000 <= threshold * maxHp

\* mutant: healing is not limited by maxHp
Healed_Unclamped(hp, amount, maxHp) == hp + amount

\* Math.min(stats.maxHp, currentHp + heal)
Healed(hp, amount, maxHp) == Min(maxHp, hp + amount)

\* top of the loop body: time step, HP decay per second, berserk activation
TickStart ==
    /\ UNCHANGED notBattle
    /\ pc = "loop"
    /\ LoopGuard(time, sc.maxTime, wHp, eHp)
    /\ time' = time + tickInterval
    /\ ticks' = ticks + 1
    /\ LET decay == traitEffects.hpDecayPerSec
           hp1 == IF decay > 0
                  THEN Max(0, wHp - (sc.w.maxHp * decay * tickInterval) \div 100000)
                  ELSE wHp
           dead == decay > 0 /\ hp1 <= 0
           goBerserk == /\ ~dead
                        /\ BerserkTrigger(berserkActive, traitEffects.berserkThreshold,
                                          hp1, sc.w.maxHp)
       IN  /\ wHp' = hp1
           /\ endLogs' = IF dead THEN Append(endLogs, "weapon_self_destructed") ELSE endLogs
           /\ logs' = IF dead \/ goBerserk
                      THEN Append(logs, LogEntry(time + tickInterval, "weapon", "note"))
                      ELSE logs
           /\ pc' = IF dead THEN "return" ELSE "weapon"
           /\ berserkActive' = (berserkActive \/ goBerserk)
           /\ wAtk' = IF goBerserk THEN wAtk * 2 ELSE wAtk
           /\ wDef' = IF goBerserk THEN 0 ELSE wDef
    /\ UNCHANGED << sc, eHp, wCd, eCd, acts, result >>

\* the loop condition fails
LoopExit ==
    /\ UNCHANGED notBattle
    /\ pc = "loop"
    /\ ~LoopGuard(time, sc.maxTime, wHp, eHp)
    /\ pc' = "return"
    /\ UNCHANGED << sc, time, wHp, eHp, wCd, eCd, wAtk, wDef, berserkActive,
                    endLogs, logs, ticks, acts, result >>

\* weapon action phase
WeaponPhase ==
    /\ UNCHANGED notBattle
    /\ pc = "weapon"
    /\ LET cd1 == wCd - tickInterval
       IN  IF CooldownReady(cd1)
           THEN \E action \in selectAction(sc.w.g5, sc.w.g6, sc.w.g7) :
                \E entry \in executeAction(action, wAtk, sc.w, sc.w.g7, sc.e) :
                   LET dmg  == entry.damage
                       hit  == dmg > 0
                       wHp1 == IF action = "defend" THEN Healed(wHp, entry.heal, sc.w.maxHp) ELSE wHp
                       wHp2 == IF hit /\ traitEffects.lifesteal > 0
                               THEN Healed(wHp1, (dmg * traitEffects.lifesteal) \div 1000, sc.w.maxHp)
                               ELSE wHp1
                       eHp1 == eHp - dmg
                       eHp2 == IF hit /\ traitEffects.dotOnHit > 0
                               THEN eHp1 - RoundTenth(sc.e.maxHp * traitEffects.dotOnHit, 1000)
                               ELSE eHp1
                       wHpC == Max(0, wHp2)
                       eHpC == Max(0, eHp2)
                   IN  /\ acts' = acts + 1
                       /\ wCd' = sc.w.attackSpeed
                       /\ wHp' = wHpC
                       /\ eHp' = eHpC
                       /\ endLogs' = IF eHpC <= 0 THEN Append(endLogs, "enemy_killed") ELSE endLogs
                       /\ logs' = Append(logs, LogEntry(time, "weapon", "action"))
                                    \o (IF eHpC <= 0 THEN << LogEntry(time, "weapon", "note") >>
                                        ELSE << >>)
                       /\ pc' = AfterWeaponPhase(wHpC, eHpC)
           ELSE /\ wCd' = cd1
                /\ pc' = AfterWeaponPhase(wHp, 1)
                /\ UNCHANGED << acts, wHp, eHp, endLogs, logs >>
    /\ UNCHANGED << sc, time, eCd, wAtk, wDef, berserkActive, ticks, result >>

\* enemy action phase
EnemyPhase ==
    /\ UNCHANGED notBattle
    /\ pc = "enemy"
    /\ LET cd1 == eCd - tickInterval
       IN  IF CooldownReady(cd1)
           THEN \E action \in selectAction(sc.e.g5, sc.e.g6, sc.e.g7) :
                \E entry \in executeAction(action, sc.e.attack, sc.e, sc.e.g7, sc.w) :
                \E selfDestruct \in BOOLEAN :
                   LET dmg  == entry.damage
                       hit  == dmg > 0
                       eHp1 == IF action = "defend" THEN Healed(eHp, entry.heal, sc.e.maxHp) ELSE eHp
                       wHp1 == wHp - dmg
                       boom == hit /\ traitEffects.selfDestructChance > 0 /\ selfDestruct
                       wHp2 == IF boom
                               THEN Max(0, wHp1 - 1000 * RoundDiv(sc.w.maxHp * 25, 100000))
                               ELSE wHp1
                       eHp2 == IF hit /\ traitEffects.thornDmg > 0
                               THEN eHp1 - RoundTenth(dmg * traitEffects.thornDmg, 1000)
                               ELSE eHp1
                       wHpC == Max(0, wHp2)
                       eHpC == Max(0, eHp2)
                   IN  /\ selfDestruct => (hit /\ traitEffects.selfDestructChance > 0)
                       /\ acts' = acts + 1
                       /\ eCd' = sc.e.attackSpeed
                       /\ wHp' = wHpC
                       /\ eHp' = eHpC
                       /\ endLogs' = IF wHpC <= 0 THEN Append(endLogs, "weapon_destroyed")
                                     ELSE IF eHpC <= 0 THEN Append(endLogs, "enemy_killed")
                                     ELSE endLogs
                       /\ logs' = Append(logs, LogEntry(time, "enemy", "action"))
                                    \o (IF boom THEN << LogEntry(time, "weapon", "note") >> ELSE << >>)
                                    \o (IF wHpC <= 0 \/ eHpC <= 0
                                        THEN << LogEntry(time, "weapon", "note") >> ELSE << >>)
                       /\ pc' = AfterEnemyPhase(wHpC, eHpC)
           ELSE /\ eCd' = cd1
                /\ pc' = "loop"
                /\ UNCHANGED << acts, wHp, eHp, endLogs, logs >>
    /\ UNCHANGED << sc, time, wCd, wAtk, wDef, berserkActive, ticks, result >>

\* after the loop: won, killTime (-1 = Infinity), the end log, the result
Return ==
    /\ UNCHANGED notBattle
    /\ pc = "return"
    /\ LET won == WonOf(wHp, eHp)
       IN  /\ endLogs' =
                IF won /\ ~HasLog("enemy_killed")
                THEN Append(endLogs, "victory")
                ELSE IF wHp <= 0 /\ ~(HasLog("weapon_destroyed") \/ HasLog("weapon_self_destructed"))
                THEN Append(endLogs, "weapon_destroyed")
                ELSE IF time >= sc.maxTime /\ wHp > 0 /\ eHp > 0
                THEN Append(endLogs, "timeout")
                ELSE endLogs
           /\ logs' =
                IF won /\ ~HasLog("enemy_killed")
                THEN Append(logs, LogEntry(time, "weapon", "note"))
                ELSE IF wHp <= 0 /\ ~(HasLog("weapon_destroyed") \/ HasLog("weapon_self_destructed"))
                THEN Append(logs, LogEntry(time, "enemy", "note"))
                ELSE IF time >= sc.maxTime /\ wHp > 0 /\ eHp > 0
                THEN Append(logs, LogEntry(time, "weapon", "note"))
                ELSE logs
           /\ result' = [won |-> won,
                         killTime |-> IF won THEN time ELSE -1,
                         weaponHpRemaining |-> Max(0, wHp),
                         enemyHpRemaining |-> Max(0, eHp)]
    /\ pc' = "done"
    /\ UNCHANGED << sc, time, wHp, eHp, wCd, eCd, wAtk, wDef, berserkActive, ticks, acts >>

(***************************************************************************)
(* ======================= GeneticEngine / mathUtils ===================== *)
(* Genes and rates are in thousandths.  Gene indices are 0..9 as in the    *)
(* source.  Math.random() is a choice from a few values of [0, 1).         *)
(***************************************************************************)

\* most genes one call of mutate changes in the model
MaxMutatedGenes == 2

GENOME_LENGTH == 10
SoftCapTotal == 7000
SoftCapRateInv == 10
InbreedSimilarity == 150
MaxFixedGenes == 3
AncestorCap == 14

GeneIdx == 0 .. (GENOME_LENGTH - 1)

\* a genome from the tuple of its genes
Genome(t) == [i \in GeneIdx |-> t[i + 1]]

RECURSIVE SumTo(_, _)
SumTo(g, n) == IF n < 0 THEN 0 ELSE g[n] + SumTo(g, n - 1)

\* genome.reduce((a, b) => a + b, 0)
GeneSum(g) == SumTo(g, GENOME_LENGTH - 1)

\* Math.random(): values of [0, 1)
RandGenes == {0, 999}

\* Math.random() * 0.3
Magnitudes == {299}

\* Math.log, in thousandths, for the arguments the model uses
LnMilli(n) ==
    CASE n = 1 -> 0      [] n = 2 -> 693     [] n = 3 -> 1099   [] n = 4 -> 1386
      [] n = 5 -> 1609   [] n = 11 -> 2398   [] n = 101 -> 4615 [] n = 1001 -> 6909

\* mutant: no clamp
clampGene_None(value) == value

\* Math.max(0, Math.min(1, value))
clampGene(value) == Max(0, Min(1000, value))

\* mutant: the early return for a sum within the cap is missing
applySoftCap_NoGuard(genome) ==
    LET total  == GeneSum(genome)
        excess == total - SoftCapTotal
    IN  IF total = 0 THEN genome
        ELSE [i \in DOMAIN genome |->
                Max(0, Min(1000, RoundDiv(genome[i] * (SoftCapRateInv * total - excess),
                                          SoftCapRateInv * total)))]

\* applySoftCap(genome, 7.0, 0.1): scale = 1 - (excess / totalSum) * 0.1
applySoftCap(genome) ==
    LET total  == GeneSum(genome)
        excess == total - SoftCapTotal
    IN  IF total <= SoftCapTotal THEN genome
        ELSE [i \in DOMAIN genome |->
                clampGene(RoundDiv(genome[i] * (SoftCapRateInv * total - excess),
                                   SoftCapRateInv * total))]

\* diminishingReturns(baseValue, generation) = baseValue / (1 + ln(gen) * 0.25)
diminishingReturns(baseValue, generation) ==
    RoundDiv(baseValue * 1000, 1000 + RoundDiv(LnMilli(Max(1, generation)) * 250, 1000))

\* mutant: crossover that reads parent B one index off
crossover_Shifted(parentA, parentB, fromA) ==
    [i \in DOMAIN parentA |-> IF i \in fromA THEN parentA[i] ELSE parentB[(i + 1) % GENOME_LENGTH]]

\* crossover: gene i from parent A when Math.random() < 0.5 (i \in fromA), else from B
crossover(parentA, parentB, fromA) ==
    [i \in DOMAIN parentA |-> IF i \in fromA THEN parentA[i] ELSE parentB[i]]

\* what mutate can return for one gene that mutates: a full random value or
\* a clamped perturbation in either direction
MutatedGene(gene) ==
    RandGenes \cup {clampGene(gene + d * mag) : d \in {-1, 1}, mag \in Magnitudes}

\* mutate(genome, rate, generation, lockedGenes): the genomes it can return,
\* each with the set of indices that mutated
mutate(genome, rate, locked) ==
    LET free == IF rate > 0 THEN DOMAIN genome \ locked ELSE {}
    IN  UNION { { [genome |-> [i \in DOMAIN genome |-> IF i \in S THEN new[i] ELSE genome[i]],
                   mutated |-> S]
                  : new \in { f \in [S -> UNION {MutatedGene(genome[i]) : i \in S}] :
                                \A i \in S : f[i] \in MutatedGene(genome[i]) } }
                : S \in {T \in SUBSET free : Cardinality(T) <= MaxMutatedGenes} }

\* createStageGenome(stage): range, floor and one gene from a random value
StageProgress(stageLevel) == RoundDiv(LnMilli(1 + stageLevel) * 1000, LnMilli(101))
StageRange(stageLevel) == Min(250 + RoundDiv(StageProgress(stageLevel) * 650, 1000), 900)
StageFloor(stageLevel) == Min(RoundDiv(StageProgress(stageLevel) * 450, 1000), 450)

\* Math.max(0.01, Math.min(0.99, Math.random() * range + floor))
StageGene(stageLevel, rnd) ==
    Max(10, Min(990, RoundDiv(rnd * StageRange(stageLevel), 1000) + StageFloor(stageLevel)))

\* createStageGenome(stage, 10): the genomes it can return
createStageGenome(stageLevel) ==
    { [i \in GeneIdx |-> StageGene(stageLevel, rnd[i])] : rnd \in [GeneIdx -> RandGenes] }

(***************************************************************************)
(* ============================ PedigreeSystem =========================== *)
(***************************************************************************)

MAX_BREED_COUNT == 3

Diseases == {"fragile_genome", "attack_decay", "element_instability", "slow_metabolism"}

\* the elements of a sequence without repetition, in order of first occurrence
RECURSIVE Dedup(_)
Dedup(s) ==
    IF s = << >> THEN << >>
    ELSE LET front == Dedup(SubSeq(s, 1, Len(s) - 1))
             last  == s[Len(s)]
         IN  IF last \in Range(front) THEN front ELSE Append(front, last)

\* buildAncestorIds: both parents, then their ancestors, first 14 kept
buildAncestorIds(parentA, parentB) ==
    LET arr == Dedup(<< parentA.id, parentB.id >> \o parentA.ancestorIds \o parentB.ancestorIds)
    IN  SubSeq(arr, 1, Min(Len(arr), AncestorCap))

AbsDiff(a, b) == IF a >= b THEN a - b ELSE b - a

\* mutant: every similar gene is fixed
selectInbreedFixedGenes_All(genomeA, genomeB, coefficient) ==
    {i \in GeneIdx : AbsDiff(genomeA[i], genomeB[i]) < InbreedSimilarity}

\* selectInbreedFixedGenes: genes closer than 0.15, the most similar first
\* (stable sort: ties in index order), the first min(3, ceil(coefficient * 4))
selectInbreedFixedGenes(genomeA, genomeB, coefficient) ==
    LET similar  == {i \in GeneIdx : AbsDiff(genomeA[i], genomeB[i]) < InbreedSimilarity}
        diff(i)  == AbsDiff(genomeA[i], genomeB[i])
        rank(i)  == Cardinality({j \in similar : diff(j) < diff(i) \/ (diff(j) = diff(i) /\ j < i)})
        maxFixed == Min(MaxFixedGenes, (4 * coefficient.n + coefficient.d - 1) \div coefficient.d)
    IN  {i \in similar : rank(i) < maxFixed}

NotInbred ==
    [isInbred |-> FALSE, sharedAncestors |-> {}, coefficient |-> [n |-> 0, d |-> 1],
     fixedGenes |-> {}, geneticDisease |-> "none"]

\* mutant: a parent that is the other parent's ancestor is not looked for
detectInbreeding_SetsOnly(parentA, parentB) ==
    LET ancestorsA == Range(parentA.ancestorIds) \cup Range(parentA.parentIds)
        ancestorsB == Range(parentB.ancestorIds) \cup Range(parentB.parentIds)
        shared == ancestorsA \cap ancestorsB
        maxPossible == Max(Max(Cardinality(ancestorsA), Cardinality(ancestorsB)), 1)
        coefficient == [n |-> Min(maxPossible, Cardinality(shared)), d |-> maxPossible]
    IN  IF shared = {} THEN {NotInbred}
        ELSE { [isInbred |-> TRUE, sharedAncestors |-> shared, coefficient |-> coefficient,
                fixedGenes |-> selectInbreedFixedGenes(parentA.genome, parentB.genome, coefficient),
                geneticDisease |-> d]
               : d \in IF 4 * coefficient.n > coefficient.d THEN Diseases \cup {"none"}
                       ELSE {"none"} }

\* detectInbreeding: the results it can return (the disease is drawn at random
\* when the coefficient n/d exceeds 0.25)
detectInbreeding(parentA, parentB) ==
    LET ancestorsA == Range(parentA.ancestorIds) \cup Range(parentA.parentIds)
        ancestorsB == Range(parentB.ancestorIds) \cup Range(parentB.parentIds)
        shared == (ancestorsA \cap ancestorsB)
                    \cup (IF parentA.id \in ancestorsB THEN {parentA.id} ELSE {})
                    \cup (IF parentB.id \in ancestorsA THEN {parentB.id} ELSE {})
        maxPossible == Max(Max(Cardinality(ancestorsA), Cardinality(ancestorsB)), 1)
        coefficient == [n |-> Min(maxPossible, Cardinality(shared)), d |-> maxPossible]
    IN  IF shared = {} THEN {NotInbred}
        ELSE { [isInbred |-> TRUE, sharedAncestors |-> shared, coefficient |-> coefficient,
                fixedGenes |-> selectInbreedFixedGenes(parentA.genome, parentB.genome, coefficient),
                geneticDisease |-> d]
               : d \in IF 4 * coefficient.n > coefficient.d THEN Diseases \cup {"none"}
                       ELSE {"none"} }

\* Math.min(1, result[i] * (1 + coiBoost))
BoostGene(gene, coiBoost) == Min(1000, RoundDiv(gene * (1000 + coiBoost), 1000))

\* applyInbreedEffects: fixed genes averaged, the disease applied, the boost
\* for a coefficient above 0.5; the genomes it can return
applyInbreedEffects(genome, parentA, parentB, inbreedResult) ==
    LET fixed == [i \in DOMAIN genome |->
                    IF i \in inbreedResult.fixedGenes
                    THEN RoundDiv(parentA.genome[i] + parentB.genome[i], 2)
                    ELSE genome[i]]
        sick(rnd) ==
            CASE inbreedResult.geneticDisease = "fragile_genome" ->
                    [fixed EXCEPT ![4] = Max(0, RoundDiv(fixed[4] * 70, 100))]
              [] inbreedResult.geneticDisease = "attack_decay" ->
                    [fixed EXCEPT ![0] = Max(0, RoundDiv(fixed[0] * 85, 100))]
              [] inbreedResult.geneticDisease = "element_instability" ->
                    [fixed EXCEPT ![2] = rnd]
              [] inbreedResult.geneticDisease = "slow_metabolism" ->
                    [fixed EXCEPT ![1] = Max(0, RoundDiv(fixed[1] * 75, 100))]
              [] OTHER -> fixed
        maxGen   == Max(Max(parentA.generation, parentB.generation), 1)
        coiBoost == diminishingReturns(150, maxGen)
        boost(g) == IF 2 * inbreedResult.coefficient.n > inbreedResult.coefficient.d
                    THEN [i \in DOMAIN g |-> BoostGene(g[i], coiBoost)]
                    ELSE g
    IN  { boost(sick(rnd)) : rnd \in RandGenes }

(***************************************************************************)
(* ========================= GeneticEngine.breed ========================= *)
(***************************************************************************)

BreedItem(id, genes, generation, parentIds, ancestorIds, breedCount, mastery) ==
    [id |-> id, genome |-> Genome(genes), generation |-> generation, parentIds |-> parentIds,
     ancestorIds |-> ancestorIds, breedCount |-> breedCount, mastery |-> mastery]

\* loot of generation 1 and weapons bred from it
ItemA == BreedItem("a", <<500, 400, 300, 200, 600, 500, 300, 200, 100, 100>>, 1, << >>, << >>, 0, 20)
ItemB == BreedItem("b", <<700, 400, 300, 200, 600, 500, 300, 200, 400, 100>>, 1, << >>, << >>, 0, 20)
ItemH == BreedItem("h", <<900, 900, 900, 900, 900, 800, 800, 800, 500, 500>>, 1, << >>, << >>, 0, 20)
ItemK == BreedItem("k", <<900, 900, 900, 900, 900, 800, 800, 800, 900, 500>>, 1, << >>, << >>, 0, 20)
ItemC == BreedItem("c", <<500, 400, 300, 200, 600, 500, 300, 200, 400, 100>>, 2,
                   <<"a", "b">>, <<"a", "b">>, 0, 100)
ItemD == BreedItem("d", <<700, 450, 300, 200, 600, 500, 300, 200, 400, 100>>, 2,
                   <<"a", "b">>, <<"a", "b">>, 0, 25)
ItemE == BreedItem("e", <<500, 400, 900, 200, 600, 500, 300, 200, 400, 980>>, 2,
                   <<"a", "x">>, <<"a", "x">>, 0, 100)
ItemF == BreedItem("f", <<500, 400, 300, 200, 600, 500, 300, 200, 400, 980>>, 3,
                   <<"c", "e">>, <<"c", "e", "a", "b", "x">>, 0, 30)
ItemY == BreedItem("y", <<500, 100, 300, 200, 600, 900, 300, 200, 400, 980>>, 2,
                   <<"x", "z">>, <<"x", "z">>, 0, 25)
ItemP == BreedItem("p", <<900, 900, 900, 900, 900, 800, 800, 800, 500, 500>>, 2,
                   <<"h", "k">>, <<"h", "k">>, 0, 25)
ItemQ == BreedItem("q", <<900, 900, 900, 900, 900, 800, 800, 800, 900, 500>>, 2,
                   <<"h", "k">>, <<"h", "k">>, 0, 25)
ItemT == BreedItem("t", <<700, 400, 300, 200, 600, 500, 300, 200, 100, 100>>, 1, << >>, << >>, 2, 100)

BreedCall(parentA, parentB, mutationRate, locked) ==
    [parentA |-> parentA, parentB |-> parentB, mutationRate |-> mutationRate, lockedGenes |-> locked]

\* the calls of breed the model makes: unrelated parents with and without
\* mutationRate and locks, siblings, half-siblings, parent and child, distant
\* relatives, unrelated parents with pedigrees, used and mastered parents
BreedScenarios ==
    { BreedCall(ItemA, ItemB, 0, {}),
      BreedCall(ItemH, ItemK, 0, {}),
      BreedCall(ItemA, ItemB, 60, {0, 8}),
      BreedCall(ItemC, ItemD, 60, {}),
      BreedCall(ItemC, ItemE, 60, {2, 12}),
      BreedCall(ItemC, ItemA, 0, {}),
      BreedCall(ItemF, ItemY, 60, {}),
      BreedCall(ItemC, ItemY, 0, {}),
      BreedCall(ItemP, ItemQ, 0, {}),
      BreedCall(ItemT, ItemB, 60, {}) }

Stages == {1, 10, 100, 1000}

NoGenome == << >>
NoChild == [id |-> "none"]


\* const generation = Math.max(parentA.generation, parentB.generation) + 1
ChildGeneration(parentA, parentB) == Max(parentA.generation, parentB.generation) + 1

\* const entropyRate = mutationRate + generation * 0.005
EntropyRate(mutationRate, generation) == mutationRate + generation * 5

InitBreed ==
    /\ \/ bpc = "crossover" /\ bsc \in BreedScenarios /\ stageArg = 0
       \/ bpc = "createStageGenome" /\ bsc = BreedCall(ItemA, ItemB, 0, {}) /\ stageArg \in Stages
    /\ childGenome = NoGenome
    /\ lockedGenes = bsc.lockedGenes
    /\ inbreed = NotInbred
    /\ crossOut = NoGenome
    /\ mutOut = NoGenome
    /\ mutated = {}
    /\ child = NoChild
    /\ stageGenome = NoGenome

\* crossover, then the locked genes taken from parent A
BreedCrossover ==
    /\ UNCHANGED notBreed
    /\ bpc = "crossover"
    /\ \E fromA \in SUBSET GeneIdx :
          LET crossed == crossover(bsc.parentA.genome, bsc.parentB.genome, fromA)
          IN  /\ crossOut' = crossed
              /\ childGenome' = [i \in DOMAIN crossed |->
                                   IF i \in bsc.lockedGenes /\ i >= 0 /\ i < GENOME_LENGTH
                                   THEN bsc.parentA.genome[i] ELSE crossed[i]]
    /\ bpc' = "inbreed"
    /\ UNCHANGED << bsc, stageArg, lockedGenes, inbreed, mutOut, mutated, child, stageGenome >>

\* detectInbreeding and, when inbred, applyInbreedEffects and the merged locks
BreedInbreed ==
    /\ UNCHANGED notBreed
    /\ bpc = "inbreed"
    /\ \E res \in detectInbreeding(bsc.parentA, bsc.parentB) :
          /\ inbreed' = res
          /\ IF res.isInbred
             THEN /\ childGenome' \in applyInbreedEffects(childGenome, bsc.parentA, bsc.parentB, res)
                  /\ lockedGenes' = lockedGenes \cup res.fixedGenes
             ELSE UNCHANGED << childGenome, lockedGenes >>
    /\ bpc' = "mutate"
    /\ UNCHANGED << bsc, stageArg, crossOut, mutOut, mutated, child, stageGenome >>

\* the disease of the child after genetic fatigue and the mastery cure
FinalDiseases(parentA, parentB, inherited) ==
    LET isMasteryBreed  == parentA.mastery + parentB.mastery >= 160
        maxParentBreeds == Max(parentA.breedCount, parentB.breedCount)
    IN  IF inherited = "none"
        THEN IF maxParentBreeds > 0 THEN Diseases \cup {"none"} ELSE {"none"}
        ELSE IF isMasteryBreed THEN {inherited, "none"} ELSE {inherited}

\* mutate, applySoftCap, buildAncestorIds, the child and its disease
BreedFinish ==
    /\ UNCHANGED notBreed
    /\ bpc = "mutate"
    /\ LET generation == ChildGeneration(bsc.parentA, bsc.parentB)
           entropyRate == EntropyRate(bsc.mutationRate, generation)
       IN  \E m \in mutate(childGenome, entropyRate, lockedGenes) :
           \E disease \in FinalDiseases(bsc.parentA, bsc.parentB, inbreed.geneticDisease) :
              /\ mutOut' = m.genome
              /\ mutated' = m.mutated
              /\ childGenome' = applySoftCap(m.genome)
              /\ child' = [id |-> "child",
                           genome |-> applySoftCap(m.genome),
                           generation |-> generation,
                           parentIds |-> << bsc.parentA.id, bsc.parentB.id >>,
                           ancestorIds |-> buildAncestorIds(bsc.parentA, bsc.parentB),
                           breedCount |-> 0,
                           geneticDisease |-> disease]
    /\ bpc' = "done"
    /\ UNCHANGED << bsc, stageArg, lockedGenes, inbreed, crossOut, stageGenome >>

\* one call of createStageGenome
CreateStageGenome ==
    /\ UNCHANGED notBreed
    /\ bpc = "createStageGenome"
    /\ stageGenome' \in createStageGenome(stageArg)
    /\ bpc' = "done"
    /\ UNCHANGED << bsc, stageArg, childGenome, lockedGenes, inbreed, crossOut, mutOut, mutated, child >>

(***************************************************************************)
(* ============================= applySoftCap ============================ *)
(***************************************************************************)

\* gene values of the genomes applySoftCap is applied to
GeneGrid == {0, 250, 500, 700, 750, 800, 900, 1000}

\* genomes of two blocks of equal genes (applySoftCap treats all indices alike)
CapGenomes ==
    { [i \in GeneIdx |-> IF i < k THEN x ELSE y] : k \in 0 .. GENOME_LENGTH, x \in GeneGrid, y \in GeneGrid }
    \cup { ItemA.genome, ItemE.genome, ItemK.genome }

InitSoftCap ==
    /\ capIn \in CapGenomes
    /\ capOnce = NoGenome
    /\ capTwice = NoGenome
    /\ cpc = "first"

SoftCapFirst ==
    /\ UNCHANGED notCap
    /\ cpc = "first"
    /\ capOnce' = applySoftCap(capIn)
    /\ cpc' = "second"
    /\ UNCHANGED << capIn, capTwice >>

SoftCapSecond ==
    /\ UNCHANGED notCap
    /\ cpc = "second"
    /\ capTwice' = applySoftCap(capOnce)
    /\ cpc' = "done"
    /\ UNCHANGED << capIn, capOnce >>

(***************************************************************************)
(* ============================ EnemyEvolution =========================== *)
(* Fitness, survival time and damage are in tenths.                        *)
(***************************************************************************)

\* most logEnemyDeath calls on one instance
MaxLogged == 22

ArchiveCap == 20

\* result.killTime and result.damageTaken of the battles won
SurvivalTimes == {5, 300}
DamagesDealt == {0, 124}

\* item.fitness = survivalTime * 2 + damageDealt * 5
DeathFitness(survivalTime, damageDealt) == survivalTime * 2 + damageDealt * 5

FitnessValues == {DeathFitness(t, d) : t \in SurvivalTimes, d \in DamagesDealt}

\* one item put into a list sorted by descending fitness, behind its equals
InsertDesc(s, item) ==
    LET before == Cardinality({i \in DOMAIN s : s[i].fitness >= item.fitness})
    IN  SubSeq(s, 1, before) \o << item >> \o SubSeq(s, before + 1, Len(s))

\* bestAncestors.sort((a, b) => b.fitness - a.fitness): a stable sort
RECURSIVE SortDesc(_)
SortDesc(s) ==
    IF s = << >> THEN << >>
    ELSE InsertDesc(SortDesc(SubSeq(s, 1, Len(s) - 1)), s[Len(s)])

\* mutant: the last 20 are kept
KeepTop_Last(s) == IF Len(s) > ArchiveCap THEN SubSeq(s, Len(s) - ArchiveCap + 1, Len(s)) ELSE s

\* if (length > 20) bestAncestors = bestAncestors.slice(0, 20)
KeepTop(s) == IF Len(s) > ArchiveCap THEN SubSeq(s, 1, ArchiveCap) ELSE s

InitArchive ==
    /\ bestAncestors = << >>
    /\ logged = [f \in FitnessValues |-> 0]

RECURSIVE SumOver(_, _)
SumOver(f, S) ==
    IF S = {} THEN 0
    ELSE LET x == CHOOSE y \in S : TRUE IN f[x] + SumOver(f, S \ {x})

\* how many deaths have been logged
TotalLogged == SumOver(logged, FitnessValues)

\* logEnemyDeath(item, survivalTime, damageDealt) with the fresh item the
\* battle panel makes for every kill
logEnemyDeath ==
    /\ UNCHANGED notArchive
    /\ TotalLogged < MaxLogged
    /\ \E survivalTime \in SurvivalTimes, damageDealt \in DamagesDealt :
          LET item == [fitness |-> DeathFitness(survivalTime, damageDealt), generation |-> 1]
          IN  /\ bestAncestors' = KeepTop(SortDesc(Append(bestAncestors, item)))
              /\ logged' = [logged EXCEPT ![item.fitness] = @ + 1]

(***************************************************************************)
(* ============ useGameStore, DatabasePanel and BreedingLab ============== *)
(* An item carries the fields the store and the two panels read; its       *)
(* genome is kept as what they derive from it: the rating (getRating) and  *)
(* the average gene in thousandths (crystallize).                          *)
(***************************************************************************)

\* most breed transactions that go through
MaxBreeds == 2
\* most battles won
MaxBattles == 1

DecomposeEnergy == 10
BaseBreedCost == 25
LockCostPerGene == 10
MaterialGeneration == 5
MasteryMax == 100
GeneLockMastery == 10

NoItem == [id |-> 0]

StoreItem(id, generation, breedCount, mastery, locked, rank, quality) ==
    [id |-> id, generation |-> generation, breedCount |-> breedCount, mastery |-> mastery,
     locked |-> locked, rank |-> rank, quality |-> quality]

\* a game in progress: the starter weapon, equipped and trained; a weapon
\* bred twice; a looted genome two mastery points short of breeding; a
\* weapon at its breeding limit
StarterWeapon == StoreItem(1, 1, 0, 20, FALSE, "C", 500)
StartInventory ==
    { StarterWeapon,
      StoreItem(2, 1, 2, 20, FALSE, "B", 450),
      StoreItem(3, 1, 0, 18, FALSE, "D", 200),
      StoreItem(4, 1, 3, 20, FALSE, "C", 320) }
FirstChildId == 5
StartEnergies == {20, 60}

MaterialTypes == {"fire_shard", "ice_shard", "lightning_shard"}
RankFilters == {"D", "C"}

\* the fitness of a battle won; the rating and average gene of a child;
\* the gene indices the lab offers to lock
BattleFitnesses == {40, 60, 90}
ChildRanks == {"C"}
ChildQualities == {320}
LockableGenes == {0}

Ids(items) == {it.id : it \in items}
ItemOf(id) == CHOOSE it \in inventory : it.id = id

\* RANK_COST_MAP, in tenths
RankCost(rank) ==
    CASE rank = "B" -> 15 [] rank = "A" -> 20 [] rank = "S" -> 30 [] rank = "SS" -> 50
      [] OTHER -> 10

\* rankOrder.indexOf(rank)
RankOrder(rank) ==
    CASE rank = "D" -> 0 [] rank = "C" -> 1 [] rank = "B" -> 2 [] rank = "A" -> 3
      [] rank = "S" -> 4 [] rank = "SS" -> 5

\* the better of the two parents' ratings
BestRank(a, b) == IF RankOrder(b.rank) > RankOrder(a.rank) THEN b.rank ELSE a.rank

\* Math.pow(generation, 2.5), in thousandths, for the generations of the model
GenPow(generation) ==
    CASE generation = 1 -> 1000 [] generation = 2 -> 5657 [] generation = 3 -> 15588
      [] generation = 4 -> 32000

\* calculateBreedingCost(generation, bestRank, lockedGeneCount).totalCost
calculateBreedingCost(generation, bestRank, lockedGeneCount) ==
    RoundDiv(BaseBreedCost * GenPow(generation) * RankCost(bestRank), 10000)
        + lockedGeneCount * LockCostPerGene

\* requiredMastery(generation) = 15 + generation * 5
requiredMastery(generation) == 15 + generation * 5

\* mutant: addMastery without the cap
addMastery_NoCap(currentMastery, fitness) ==
    IF fitness >= 80 THEN currentMastery + 3
    ELSE IF fitness >= 50 THEN currentMastery + 2
    ELSE currentMastery

\* FitnessCalculator.addMastery
addMastery(currentMastery, fitness) ==
    IF fitness >= 80 THEN Min(MasteryMax, currentMastery + 3)
    ELSE IF fitness >= 50 THEN Min(MasteryMax, currentMastery + 2)
    ELSE currentMastery

\* PedigreeSystem.crystallize(item).crystalBonus.energyYield
energyYield(item) ==
    (50000 + item.generation * 10000 + item.quality * 40 + item.mastery * 500
        + item.breedCount * 15000) \div 1000

RECURSIVE SumYield(_)
SumYield(items) ==
    IF items = {} THEN 0
    ELSE LET it == CHOOSE x \in items : TRUE IN energyYield(it) + SumYield(items \ {it})

InitStore ==
    /\ inventory = StartInventory
    /\ equippedWeapon = StarterWeapon
    /\ geneEnergy \in StartEnergies
    /\ materials = [t \in MaterialTypes |-> 0]
    /\ crystallizedItems = {}
    /\ selectedIds = {}
    /\ labParentA = NoItem
    /\ labParentB = NoItem
    /\ labLockedGenes = {}
    /\ bred = 0
    /\ battles = 0

(* ------------------------------ the store ------------------------------ *)

\* equipWeapon(item)
equipWeapon(item) ==
    /\ equippedWeapon' = item
    /\ inventory' = IF item.id \in Ids(inventory) THEN inventory ELSE inventory \cup {item}

\* decompose(ids)
decompose(ids) ==
    LET safeIds == {id \in ids : id # equippedWeapon.id}
        toRemove == {it \in inventory : it.id \in safeIds}
    IN  /\ inventory' = inventory \ toRemove
        /\ geneEnergy' = geneEnergy + Cardinality(toRemove) * DecomposeEnergy

\* mutant: toggleItemLock without the equipped copy
toggleItemLock_InventoryOnly(itemId) ==
    /\ inventory' = {IF it.id = itemId THEN [it EXCEPT !.locked = ~it.locked] ELSE it
                     : it \in inventory}
    /\ equippedWeapon' = equippedWeapon

\* toggleItemLock(itemId)
toggleItemLock(itemId) ==
    /\ inventory' = {IF it.id = itemId THEN [it EXCEPT !.locked = ~it.locked] ELSE it
                     : it \in inventory}
    /\ equippedWeapon' = IF equippedWeapon.id = itemId
                         THEN [equippedWeapon EXCEPT !.locked = ~equippedWeapon.locked]
                         ELSE equippedWeapon

\* the items bulkCrystallize takes
Exhausted ==
    {it \in inventory : it.breedCount >= MAX_BREED_COUNT /\ it.id # equippedWeapon.id /\ ~it.locked}

Crystal(item) ==
    [originalId |-> item.id, generation |-> item.generation, totalBreedCount |-> item.breedCount]

\* bulkCrystallize()
bulkCrystallize ==
    /\ inventory' = inventory \ Exhausted
    /\ crystallizedItems' = crystallizedItems \cup {Crystal(it) : it \in Exhausted}
    /\ geneEnergy' = geneEnergy + SumYield(Exhausted)

\* updateMastery(itemId, fitness)
updateMastery(itemId, fitness) ==
    /\ inventory' = {IF it.id = itemId
                     THEN [it EXCEPT !.mastery = addMastery(it.mastery, fitness)] ELSE it
                     : it \in inventory}
    /\ equippedWeapon' = IF equippedWeapon.id = itemId
                         THEN [equippedWeapon EXCEPT !.mastery = addMastery(equippedWeapon.mastery, fitness)]
                         ELSE equippedWeapon

\* crystallizeItem(itemId), for an item of the inventory
crystallizeItem(itemId) ==
    LET item == ItemOf(itemId)
    IN  /\ inventory' = inventory \ {item}
        /\ crystallizedItems' = crystallizedItems \cup {Crystal(item)}
        /\ geneEnergy' = geneEnergy + energyYield(item)
        /\ equippedWeapon' = IF equippedWeapon.id = itemId THEN NoItem ELSE equippedWeapon

\* mutant: the pre-check without the material
BreedAffordable_EnergyOnly(cost, materialType) ==
    geneEnergy >= cost

\* whether breedTransaction goes through: enough energy, and the material if one is needed
BreedAffordable(cost, materialType) ==
    /\ geneEnergy >= cost
    /\ materialType # "none" => materials[materialType] >= 1

\* breedTransaction(parentAId, parentBId, child, cost, materialType), when it returns true
breedTransaction(parentAId, parentBId, newChild, cost, materialType) ==
    /\ materials' = IF materialType # "none"
                    THEN [materials EXCEPT ![materialType] = @ - 1] ELSE materials
    /\ inventory' = {IF it.id = parentAId \/ it.id = parentBId
                     THEN [it EXCEPT !.breedCount = @ + 1] ELSE it : it \in inventory}
                    \cup {newChild}
    /\ geneEnergy' = geneEnergy - cost

(* ---------------------------- DatabasePanel ---------------------------- *)

\* toggleSelection(id): ignored for the equipped weapon and for a locked item
ToggleSelection ==
    /\ UNCHANGED notStore
    /\ \E item \in inventory :
        /\ equippedWeapon.id # item.id
        /\ ~item.locked
        /\ selectedIds' = IF item.id \in selectedIds THEN selectedIds \ {item.id}
                          ELSE selectedIds \cup {item.id}
    /\ UNCHANGED << inventory, equippedWeapon, geneEnergy, materials, crystallizedItems,
                    labParentA, labParentB, labLockedGenes, bred, battles >>

\* selectByFilter(filter)
selectByFilter(matching) ==
    selectedIds' = {it.id : it \in {i \in matching : i.id # equippedWeapon.id /\ ~i.locked}}

\* selectDOnly, selectCOnly
SelectByRank ==
    /\ UNCHANGED notStore
    /\ \E rank \in RankFilters : selectByFilter({i \in inventory : i.rank = rank})
    /\ UNCHANGED << inventory, equippedWeapon, geneEnergy, materials, crystallizedItems,
                    labParentA, labParentB, labLockedGenes, bred, battles >>

\* selectExpired
SelectExpired ==
    /\ UNCHANGED notStore
    /\ selectByFilter({i \in inventory : i.breedCount >= MAX_BREED_COUNT})
    /\ UNCHANGED << inventory, equippedWeapon, geneEnergy, materials, crystallizedItems,
                    labParentA, labParentB, labLockedGenes, bred, battles >>

\* the clear-selection button, shown while something is selected
ClearSelection ==
    /\ UNCHANGED notStore
    /\ selectedIds # {}
    /\ selectedIds' = {}
    /\ UNCHANGED << inventory, equippedWeapon, geneEnergy, materials, crystallizedItems,
                    labParentA, labParentB, labLockedGenes, bred, battles >>

\* handleDecompose(): decompose the selected set, then clear the selection
HandleDecompose ==
    /\ UNCHANGED notStore
    /\ selectedIds # {}
    /\ decompose(selectedIds)
    /\ selectedIds' = {}
    /\ UNCHANGED << equippedWeapon, materials, crystallizedItems,
                    labParentA, labParentB, labLockedGenes, bred, battles >>

\* the decompose button of one item, disabled for the equipped weapon and a locked item
DecomposeOne ==
    /\ UNCHANGED notStore
    /\ \E item \in inventory :
        /\ equippedWeapon.id # item.id
        /\ ~item.locked
        /\ decompose({item.id})
    /\ UNCHANGED << equippedWeapon, materials, crystallizedItems, selectedIds,
                    labParentA, labParentB, labLockedGenes, bred, battles >>

\* the lock button of one item
ToggleItemLock ==
    /\ UNCHANGED notStore
    /\ \E item \in inventory : toggleItemLock(item.id)
    /\ UNCHANGED << geneEnergy, materials, crystallizedItems, selectedIds,
                    labParentA, labParentB, labLockedGenes, bred, battles >>

\* the equip button of one item, not offered for the equipped weapon
EquipWeapon ==
    /\ UNCHANGED notStore
    /\ \E item \in inventory :
        /\ equippedWeapon.id # item.id
        /\ equipWeapon(item)
    /\ UNCHANGED << geneEnergy, materials, crystallizedItems, selectedIds,
                    labParentA, labParentB, labLockedGenes, bred, battles >>

(* ----------------------------- BreedingLab ----------------------------- *)

\* mutant: handleSelect without the breeding-limit check
CanSelect_NoLimit(item) ==
    item.mastery >= requiredMastery(item.generation)

\* the two gates of handleSelect: breeding limit and mastery
CanSelect(item) ==
    /\ item.breedCount < MAX_BREED_COUNT
    /\ item.mastery >= requiredMastery(item.generation)

\* handleSelect(item), from a card that is not at its breeding limit
HandleSelect ==
    /\ UNCHANGED notStore
    /\ \E item \in inventory :
        /\ CanSelect(item)
        /\ IF labParentA.id = item.id
           THEN labParentA' = NoItem /\ labParentB' = labParentB /\ labLockedGenes' = {}
           ELSE IF labParentB.id = item.id
           THEN labParentA' = labParentA /\ labParentB' = NoItem /\ labLockedGenes' = labLockedGenes
           ELSE IF labParentA = NoItem
           THEN labParentA' = item /\ labParentB' = labParentB /\ labLockedGenes' = {}
           ELSE IF labParentB = NoItem
           THEN labParentA' = labParentA /\ labParentB' = item /\ labLockedGenes' = labLockedGenes
           ELSE labParentA' = labParentB /\ labParentB' = item /\ labLockedGenes' = {}
    /\ UNCHANGED << inventory, equippedWeapon, geneEnergy, materials, crystallizedItems,
                    selectedIds, bred, battles >>

\* toggleGeneLock(idx)
ToggleGeneLock ==
    /\ UNCHANGED notStore
    /\ labParentA # NoItem
    /\ \E idx \in LockableGenes :
        /\ labParentA.mastery >= GeneLockMastery \/ idx \in labLockedGenes
        /\ labLockedGenes' = IF idx \in labLockedGenes THEN labLockedGenes \ {idx}
                             ELSE labLockedGenes \cup {idx}
    /\ UNCHANGED << inventory, equippedWeapon, geneEnergy, materials, crystallizedItems,
                    selectedIds, labParentA, labParentB, bred, battles >>

\* handleBreed(): the child of GeneticEngine.breed and the atomic transaction;
\* a refused transaction changes nothing, a successful one clears the parents
HandleBreed ==
    /\ UNCHANGED notStore
    /\ labParentA # NoItem /\ labParentB # NoItem
    /\ bred < MaxBreeds
    /\ LET parentGeneration == Max(labParentA.generation, labParentB.generation)
           totalCost == calculateBreedingCost(parentGeneration, BestRank(labParentA, labParentB),
                                              Cardinality(labLockedGenes))
       IN  \E rank \in ChildRanks, quality \in ChildQualities, shard \in MaterialTypes :
            LET materialType == IF parentGeneration >= MaterialGeneration THEN shard ELSE "none"
                newChild == StoreItem(FirstChildId + bred, parentGeneration + 1, 0, 0, FALSE,
                                      rank, quality)
            IN  IF BreedAffordable(totalCost, materialType)
                THEN /\ breedTransaction(labParentA.id, labParentB.id, newChild, totalCost, materialType)
                     /\ labParentA' = NoItem /\ labParentB' = NoItem /\ labLockedGenes' = {}
                     /\ bred' = bred + 1
                ELSE UNCHANGED << inventory, geneEnergy, materials, labParentA, labParentB,
                                  labLockedGenes, bred >>
    /\ UNCHANGED << equippedWeapon, crystallizedItems, selectedIds, battles >>

\* handleCrystallize(item), the button of a card at its breeding limit
HandleCrystallize ==
    /\ UNCHANGED notStore
    /\ \E item \in inventory :
        /\ item.breedCount >= MAX_BREED_COUNT
        /\ crystallizeItem(item.id)
        /\ labParentA' = IF labParentA.id = item.id THEN NoItem ELSE labParentA
        /\ labParentB' = IF labParentB.id = item.id THEN NoItem ELSE labParentB
    /\ UNCHANGED << materials, selectedIds, labLockedGenes, bred, battles >>

\* handleBulkCrystallize()
HandleBulkCrystallize ==
    /\ UNCHANGED notStore
    /\ bulkCrystallize
    /\ UNCHANGED << equippedWeapon, materials, selectedIds, labParentA, labParentB,
                    labLockedGenes, bred, battles >>

(* ------------------------------ won battle ----------------------------- *)

\* store.updateMastery(equippedWeapon.id, fit) after a battle won
UpdateMastery ==
    /\ UNCHANGED notStore
    /\ equippedWeapon # NoItem
    /\ battles < MaxBattles
    /\ \E fitness \in BattleFitnesses : updateMastery(equippedWeapon.id, fitness)
    /\ battles' = battles + 1
    /\ UNCHANGED << geneEnergy, materials, crystallizedItems, selectedIds,
                    labParentA, labParentB, labLockedGenes, bred >>


(***************************************************************************)
(* ===================== useGameStore.updateMastery ====================== *)
(* Any sequence of updateMastery calls, on items at every distance from    *)
(* the cap, for ids in and out of the inventory.                           *)
(***************************************************************************)

\* most updateMastery calls in a row
MaxMasteryCalls == 4

\* fitness values on both sides of the two thresholds
CallFitnesses == {0, 49, 50, 79, 80, 100}
\* the ids passed to updateMastery: two items of the inventory and an id that is not in it
CallIds == {1, 2, 9}
\* mastery of the two items before the calls
StartMasteries == {0, 95, 97, 98, 100}

InitMastery ==
    /\ \E m1 \in StartMasteries, m2 \in StartMasteries :
        /\ inventory = {StoreItem(1, 1, 0, m1, FALSE, "C", 500),
                        StoreItem(2, 1, 0, m2, FALSE, "D", 200)}
        /\ equippedWeapon = StoreItem(1, 1, 0, m1, FALSE, "C", 500)
    /\ geneEnergy = 0
    /\ materials = [t \in MaterialTypes |-> 0]
    /\ crystallizedItems = {}
    /\ selectedIds = {}
    /\ labParentA = NoItem
    /\ labParentB = NoItem
    /\ labLockedGenes = {}
    /\ bred = 0
    /\ battles = 0
    /\ lastItemId = 0
    /\ lastFitness = 0
    /\ masteryCalls = 0

\* one call updateMastery(itemId, fitness)
UpdateMasteryCall ==
    /\ UNCHANGED notStoreMastery
    /\ masteryCalls < MaxMasteryCalls
    /\ \E itemId \in CallIds, fitness \in CallFitnesses :
        /\ updateMastery(itemId, fitness)
        /\ lastItemId' = itemId
        /\ lastFitness' = fitness
    /\ masteryCalls' = masteryCalls + 1
    /\ UNCHANGED << geneEnergy, materials, crystallizedItems, selectedIds,
                    labParentA, labParentB, labLockedGenes, bred, battles >>

(***************************************************************************)
(* ============ mathUtils.boostResistance / decoded resistances ========== *)
(***************************************************************************)

ElementLabels == {"Fire", "Ice", "Lightning"}

\* genes 8 and 9 of the genome given; the other genes play no part
ResistGenes == {0, 100, 200, 300, 400, 500, 600, 700, 800, 900, 1000}
OtherGene == 500

\* the amounts of applyAdaptiveResistance (0.15) and spawnBoss (0.4)
BoostAmounts == {150, 400}

ResistGenome(fire, ice) ==
    [i \in GeneIdx |-> IF i = 8 THEN fire ELSE IF i = 9 THEN ice ELSE OtherGene]

\* ItemDecoder.decode(genome).fireResist / iceResist / lightningResist
decodeResist(genome, element) ==
    CASE element = "Fire" -> genome[8]
      [] element = "Ice" -> genome[9]
      [] element = "Lightning" -> Max(0, 1000 - ((genome[8] + genome[9]) * 6) \div 10)

\* boostResistance(genome, element, amount)
boostResistance(genome, element, amount) ==
    CASE element = "Fire" -> [genome EXCEPT ![8] = clampGene(@ + amount)]
      [] element = "Ice" -> [genome EXCEPT ![9] = clampGene(@ + amount)]
      [] element = "Lightning" ->
            [genome EXCEPT ![8] = clampGene(@ + amount \div 2),
                           ![9] = clampGene(@ + amount \div 2)]
      [] OTHER -> genome

InitBoost ==
    /\ \E fire \in ResistGenes, ice \in ResistGenes : boostGenome = ResistGenome(fire, ice)
    /\ boostElement \in ElementLabels
    /\ boostAmount \in BoostAmounts
    /\ boosted = NoGenome
    /\ rpc = "call"

BoostResistance ==
    /\ UNCHANGED notBoost
    /\ rpc = "call"
    /\ boosted' = boostResistance(boostGenome, boostElement, boostAmount)
    /\ rpc' = "done"
    /\ UNCHANGED << boostGenome, boostElement, boostAmount >>

(***************************************************************************)
(* ====== EnemyEvolution: player damage, spawning, counter report ======== *)
(* A spawned genome is followed through the genes the spawn code writes;   *)
(* the child of crossover, mutate and the stage floor is any genome, drawn *)
(* here from SpawnGenes.                                                   *)
(***************************************************************************)

\* most deaths logged, attacks logged and enemies spawned in one run
MaxArchiveSeen == 2
MaxAttacks == 3
MaxSpawns == 1

AdaptiveBoost == 150
BossBoost == 400
FinalBossStage == 100

\* damage of one logged player attack
AttackDamage == 10
\* genes 8 and 9 of the genome before the boosts
SpawnGenes == {500}
SpawnStages == {1, 100}
ReportStages == {1, 5}
SpeciesRolls == {"tank", "attacker", "standard"}

NoSpawn == [kind |-> "none"]
NoReport == [stage |-> 0]

\* the resistance a report entry names, by element
ResistanceGene(element) ==
    CASE element = "Fire" -> "fire resistance"
      [] element = "Ice" -> "ice resistance"
      [] element = "Lightning" -> "lightning resistance"

InitEvo ==
    /\ generationCount = 1
    /\ playerElementDamage = << >>
    /\ spawned = NoSpawn
    /\ spawns = 0
    /\ report = NoReport

\* logEnemyDeath, for the first deaths of a run
LogFirstDeaths ==
    /\ Len(bestAncestors) < MaxArchiveSeen
    /\ logEnemyDeath

RECURSIVE TotalDamage(_)
TotalDamage(entries) ==
    IF entries = << >> THEN 0 ELSE entries[1].dmg + TotalDamage(Tail(entries))

\* playerElementDamage.set(element, current + damage)
MapSet(entries, element, damage) ==
    IF \E k \in DOMAIN entries : entries[k].elem = element
    THEN [k \in DOMAIN entries |->
            IF entries[k].elem = element
            THEN [elem |-> element, dmg |-> entries[k].dmg + damage] ELSE entries[k]]
    ELSE Append(entries, [elem |-> element, dmg |-> damage])

\* logPlayerAttack(element, damage), called for weapon log entries with a damage
logPlayerAttack ==
    /\ UNCHANGED notEvo
    /\ TotalDamage(playerElementDamage) < MaxAttacks * AttackDamage
    /\ \E element \in ElementLabels :
        playerElementDamage' = MapSet(playerElementDamage, element, AttackDamage)
    /\ UNCHANGED << generationCount, spawned, spawns, report >>

\* resetStageTracking()
resetStageTracking ==
    /\ UNCHANGED notEvo
    /\ playerElementDamage # << >>
    /\ playerElementDamage' = << >>
    /\ UNCHANGED << generationCount, spawned, spawns, report >>

\* the loop of getDominantPlayerElement over the entries from k on
RECURSIVE DominantFrom(_, _, _, _)
DominantFrom(entries, k, max, best) ==
    IF k > Len(entries) THEN best
    ELSE IF entries[k].dmg > max
         THEN DominantFrom(entries, k + 1, entries[k].dmg, entries[k].elem)
         ELSE DominantFrom(entries, k + 1, max, best)

\* getDominantPlayerElement(): "null" when nothing was logged
getDominantPlayerElement == DominantFrom(playerElementDamage, 1, 0, "null")

\* Math.max(...bestAncestors.map(p => p.generation))
RECURSIVE MaxGeneration(_)
MaxGeneration(items) ==
    IF Len(items) = 1 THEN items[1].generation
    ELSE Max(items[1].generation, MaxGeneration(Tail(items)))

\* applyAdaptiveResistance(genome)
applyAdaptiveResistance(genome) ==
    IF getDominantPlayerElement = "null" THEN genome
    ELSE boostResistance(genome, getDominantPlayerElement, AdaptiveBoost)

\* the speciation roll of spawnEnemy
Speciate(g, species) ==
    CASE species = "tank" ->
            [g EXCEPT ![4] = clampGene((@ * 18) \div 10), ![0] = @ \div 2,
                      ![6] = clampGene(@ + 300), ![8] = clampGene(@ + 100),
                      ![9] = clampGene(@ + 100)]
      [] species = "attacker" ->
            [g EXCEPT ![4] = @ \div 2, ![0] = clampGene(@ * 2),
                      ![1] = clampGene(@ + 200), ![5] = clampGene(@ + 300)]
      [] OTHER -> g

\* the element spawnEnemy passes to boostResistance, "none" when it applies no boost
EnemyBoostElement ==
    IF Len(bestAncestors) >= 2 /\ getDominantPlayerElement # "null"
    THEN getDominantPlayerElement ELSE "none"

\* the element spawnBoss passes to boostResistance, "none" when it applies no boost
BossBoostElement ==
    IF getDominantPlayerElement # "null" THEN getDominantPlayerElement ELSE "none"

\* spawnEnemy(stageLevel)
spawnEnemy ==
    /\ UNCHANGED notEvo
    /\ spawns < MaxSpawns
    /\ \E fire \in SpawnGenes, ice \in SpawnGenes, species \in SpeciesRolls :
        LET evolved == Len(bestAncestors) >= 2
            gen == IF evolved THEN MaxGeneration(bestAncestors) + 1 ELSE 1
            offspring == ResistGenome(fire, ice)
            baseGenome == IF EnemyBoostElement # "none"
                          THEN boostResistance(offspring, EnemyBoostElement, AdaptiveBoost)
                          ELSE offspring
        IN  /\ generationCount' = IF evolved THEN gen ELSE generationCount
            /\ spawned' = [kind |-> "enemy", genome |-> Speciate(baseGenome, species),
                           generation |-> gen, species |-> species,
                           boost |-> EnemyBoostElement]
    /\ spawns' = spawns + 1
    /\ UNCHANGED << playerElementDamage, report >>

\* spawnBoss(stageLevel)
spawnBoss ==
    /\ UNCHANGED notEvo
    /\ spawns < MaxSpawns
    /\ \E stageLevel \in SpawnStages, fire \in SpawnGenes, ice \in SpawnGenes :
        LET evolved == Len(bestAncestors) >= 2
            gen == IF evolved THEN MaxGeneration(bestAncestors) + 1 ELSE 1
            offspring == ResistGenome(fire, ice)
            mult == IF stageLevel >= FinalBossStage THEN 30 ELSE 25
            scaled == [offspring EXCEPT ![0] = clampGene((@ * mult) \div 10),
                                    ![1] = clampGene(Min(@ + 150, 990)),
                                    ![4] = clampGene((@ * mult) \div 10),
                                    ![6] = clampGene(@ + 400),
                                    ![8] = clampGene(@ + 150),
                                    ![9] = clampGene(@ + 150)]
            baseGenome == IF BossBoostElement # "none"
                          THEN boostResistance(scaled, BossBoostElement, BossBoost)
                          ELSE scaled
        IN  /\ generationCount' = IF evolved THEN gen ELSE generationCount
            /\ spawned' = [kind |-> "boss", genome |-> baseGenome, generation |-> gen,
                           species |-> "boss", boost |-> BossBoostElement]
    /\ spawns' = spawns + 1
    /\ UNCHANGED << playerElementDamage, report >>

\* generateCounterReport(stageLevel): dominantPlayerElement and resistanceBoost
CounterReport(stageLevel) ==
    LET dominant == getDominantPlayerElement
        elemental == IF dominant \in ElementLabels
                     THEN << [gene |-> ResistanceGene(dominant),
                              boost |-> IF dominant = "Lightning" THEN 20 ELSE 15] >>
                     ELSE << >>
        defensive == IF stageLevel >= 3 THEN << [gene |-> "defense instinct", boost |-> 10] >>
                     ELSE << >>
        tactical == IF stageLevel >= 5 THEN << [gene |-> "tactical variety", boost |-> 10] >>
                    ELSE << >>
    IN  [stage |-> stageLevel, dominantPlayerElement |-> dominant,
         resistanceBoost |-> elemental \o defensive \o tactical]

generateCounterReport ==
    /\ UNCHANGED notEvo
    /\ \E stageLevel \in ReportStages : report' = CounterReport(stageLevel)
    /\ UNCHANGED << generationCount, playerElementDamage, spawned, spawns >>

(***************************************************************************)
(* ================== TraitSystem.applyTraits: capacity ================== *)
(* A trait instance is an object: the list position it was given at is     *)
(* kept as its identity (obj), which is what filter(t => t !== removed)     *)
(* compares.                                                               *)
(***************************************************************************)

\* longest trait list given
MaxTraits == 6

maxSlots == 5
capacityLimit == 12

\* TRAIT_CONFIG.rankCapacity
rankCapacity(rank) ==
    CASE rank = "Common" -> 1 [] rank = "Rare" -> 2 [] rank = "Epic" -> 3
      [] rank = "Legendary" -> 4

\* trait instances a list is made of: four library traits at their own rank
\* and one raised a rank by a mastery breed
TraitPool ==
    { [defId |-> "PP_003", rank |-> "Common"],
      [defId |-> "ELT_001", rank |-> "Rare"],
      [defId |-> "SST_002", rank |-> "Epic"],
      [defId |-> "PP_004", rank |-> "Legendary"],
      [defId |-> "ELT_001", rank |-> "Epic"] }

GivenTraitLists == UNION {[1 .. n -> TraitPool] : n \in 0 .. MaxTraits}

NoTraitResult == [activeTraits |-> << >>, lostTraits |-> << >>, evictions |-> << >>]

\* the objects of a list, in order
Objects(traits) == [k \in DOMAIN traits |-> [obj |-> k, defId |-> traits[k].defId,
                                             rank |-> traits[k].rank]]

\* [...traits].slice(0, TRAIT_CONFIG.maxSlots)
SliceSlots(objs) == SubSeq(objs, 1, Min(Len(objs), maxSlots))

RECURSIVE SumCapacity(_)
SumCapacity(objs) ==
    IF objs = << >> THEN 0 ELSE rankCapacity(objs[1].rank) + SumCapacity(Tail(objs))

\* mutant: the highest-capacity trait is taken first
SortedFirst_Highest(objs) ==
    LET k == CHOOSE i \in DOMAIN objs :
                /\ \A j \in DOMAIN objs : rankCapacity(objs[j].rank) <= rankCapacity(objs[i].rank)
                /\ \A j \in 1 .. (i - 1) : rankCapacity(objs[j].rank) < rankCapacity(objs[i].rank)
    IN  objs[k]

\* sortedByRank[0]: the sort is stable, so the first trait of the lowest capacity
SortedFirst(objs) ==
    LET k == CHOOSE i \in DOMAIN objs :
                /\ \A j \in DOMAIN objs : rankCapacity(objs[i].rank) <= rankCapacity(objs[j].rank)
                /\ \A j \in 1 .. (i - 1) : rankCapacity(objs[j].rank) > rankCapacity(objs[i].rank)
    IN  objs[k]

\* activeTraits.filter(t => t !== removed)
RECURSIVE Without(_, _)
Without(objs, removed) ==
    IF objs = << >> THEN << >>
    ELSE IF objs[1].obj = removed.obj THEN Without(Tail(objs), removed)
    ELSE << objs[1] >> \o Without(Tail(objs), removed)

\* the while loop of the capacity check
RECURSIVE Evict(_, _, _, _)
Evict(active, lost, totalCap, steps) ==
    IF totalCap > capacityLimit /\ Len(active) > 0
    THEN LET removed == SortedFirst(active)
         IN  Evict(Without(active, removed), Append(lost, removed.defId),
                   totalCap - rankCapacity(removed.rank),
                   Append(steps, [removed |-> removed, from |-> active]))
    ELSE [activeTraits |-> active, lostTraits |-> lost, evictions |-> steps]

\* applyTraits(baseStats, traits): activeTraits and lostTraits
applyTraits(traits) ==
    LET active == SliceSlots(Objects(traits))
    IN  Evict(active, << >>, SumCapacity(active), << >>)

InitTraits ==
    /\ traitsIn \in GivenTraitLists
    /\ traitsOut = NoTraitResult
    /\ tpc = "call"

ApplyTraits ==
    /\ UNCHANGED notTrait
    /\ tpc = "call"
    /\ traitsOut' = applyTraits(traitsIn)
    /\ tpc' = "done"
    /\ UNCHANGED traitsIn

(***************************************************************************)
(* ============ TraitSystem.calcStackedEffect and applyMod =============== *)
(* Effect sizes are hundredths; a result is the exact fraction num / den    *)
(* with den a power of 100.                                                 *)
(***************************************************************************)

\* most values collected for one stat
MaxStack == 3

\* bonuses of TRAIT_LIBRARY and SYNERGY_PAIRS
BonusEffects == {1, 2, 5, 8, 10, 15, 20, 25, 35, 40, 50, 60, 80, 100}

\* penalties of TRAIT_LIBRARY
PenaltyEffects == {-100, -50, -40, -30, -25, -20, -15, 1, 5}

Frac(num, den) == [num |-> num, den |-> den]

Abs(x) == IF x < 0 THEN 0 - x ELSE x

RECURSIVE Pow(_, _)
Pow(base, n) == IF n <= 0 THEN 1 ELSE base * Pow(base, n - 1)

\* a < b for fractions whose denominators are powers of 100
FracLess(a, b) ==
    IF a.den <= b.den THEN a.num * (b.den \div a.den) < b.num
    ELSE a.num < b.num * (a.den \div b.den)

FracNeg(a) == Frac(0 - a.num, a.den)

FracAbs(a) == Frac(Abs(a.num), a.den)

\* 1 - (1 - |individualEffect|) ^ stackCount
calcStackedEffect(individualEffect, stackCount) ==
    IF stackCount <= 0 THEN Frac(0, 1)
    ELSE Frac(Pow(100, stackCount) - Pow(100 - Abs(individualEffect), stackCount),
              Pow(100, stackCount))

\* applyMod: totalEffect, then finalVal
applyMod(values, isBonus) ==
    LET totalEffect ==
            IF Len(values) = 1 THEN Frac(values[1], 100)
            ELSE IF isBonus THEN calcStackedEffect(Abs(values[1]), Len(values))
            ELSE FracNeg(calcStackedEffect(Abs(values[1]), Len(values)))
    IN  IF isBonus THEN totalEffect ELSE FracNeg(FracAbs(totalEffect))

InitStack ==
    /\ stackIsBonus \in BOOLEAN
    /\ stackValues \in UNION {[1 .. n -> IF stackIsBonus THEN BonusEffects ELSE PenaltyEffects] :
                                n \in 1 .. MaxStack}
    /\ finalVal = Frac(0, 1)
    /\ mpc = "call"

ApplyMod ==
    /\ UNCHANGED notStack
    /\ mpc = "call"
    /\ finalVal' = applyMod(stackValues, stackIsBonus)
    /\ mpc' = "done"
    /\ UNCHANGED << stackValues, stackIsBonus >>

(***************************************************************************)
(* ==================== GeneticEngine.selectParent ======================= *)
(* Fitness and the roulette position r are hundredths.                      *)
(***************************************************************************)

\* largest population given
MaxPopulation == 3

\* Math.max(0.01, item.fitness)
FitnessFloor == 1

\* fitness values of the items: negative, zero, the floor itself, positive
ParentFitnesses == {-500, 0, 1, 200}

\* populations of distinct items
Populations ==
    { [k \in 1 .. n |-> [id |-> k, fitness |-> fit[k]]] :
        n \in 0 .. MaxPopulation, fit \in [1 .. MaxPopulation -> ParentFitnesses] }

NotCalled == [outcome |-> "none"]
Thrown(message) == [outcome |-> "thrown", message |-> message]
Returned(item) == [outcome |-> "returned", item |-> item]

Weight(item) == Max(FitnessFloor, item.fitness)

RECURSIVE totalFitness(_)
totalFitness(items) ==
    IF items = << >> THEN 0 ELSE Weight(items[1]) + totalFitness(Tail(items))

\* Math.random() * totalFitness; the last value stands for a draw whose
\* subtractions leave a positive rounding residue
RouletteDraws(items) == 0 .. totalFitness(items) + 1

\* the for loop: the first item at which r has fallen to 0 or below, else the last
RECURSIVE Roulette(_, _, _)
Roulette(items, k, r) ==
    IF k > Len(items) THEN items[Len(items)]
    ELSE IF r - Weight(items[k]) <= 0 THEN items[k]
    ELSE Roulette(items, k + 1, r - Weight(items[k]))

\* mutant: an empty population yields a default item
selectParent_Default(items, r) ==
    IF Len(items) = 0 THEN Returned([id |-> 0, fitness |-> 0])
    ELSE Returned(Roulette(items, 1, r))

selectParent(items, r) ==
    IF Len(items) = 0 THEN Thrown("Population is empty")
    ELSE Returned(Roulette(items, 1, r))

InitSelect ==
    /\ population \in Populations
    /\ selected = NotCalled
    /\ qpc = "call"

SelectParent ==
    /\ UNCHANGED notSelect
    /\ qpc = "call"
    /\ \E r \in RouletteDraws(population) : selected' = selectParent(population, r)
    /\ qpc' = "done"
    /\ UNCHANGED population

(***************************************************************************)
(* ====================== FastSimulator.simulate ========================= *)
(* Each runBattle is a battle of its own; what simulate reads of its result *)
(* (won, damageRatio) is drawn here.                                        *)
(***************************************************************************)

\* largest battleCount given
MaxBattleCount == 3

\* result.damageRatio of one battle, hundredths
DamageRatios == {0, 50, 200}

NoSimulation == [totalBattles |-> -1]

\* a / b of two numbers: NaN for 0 / 0, Infinity for a positive number over 0
Divide(a, b) ==
    IF b # 0 THEN [kind |-> "number", num |-> a, den |-> b]
    ELSE IF a = 0 THEN [kind |-> "NaN"]
    ELSE [kind |-> "Infinity"]

\* the object simulate returns
SimulationResult(count, wins, damageRatioSum) ==
    [totalBattles   |-> count,
     wins           |-> wins,
     losses         |-> count - wins,
     winRate        |-> Divide(wins, count),
     avgDamageRatio |-> Divide(damageRatioSum, count)]

InitSim ==
    /\ battleCount \in 0 .. MaxBattleCount
    /\ simI = 0
    /\ simWins = 0
    /\ totalDamageRatio = 0
    /\ simResult = NoSimulation
    /\ fpc = "loop"

\* one pass of the for loop
SimulateBattle ==
    /\ UNCHANGED notSim
    /\ fpc = "loop"
    /\ simI < battleCount
    /\ \E won \in BOOLEAN, damageRatio \in DamageRatios :
          /\ simWins' = IF won THEN simWins + 1 ELSE simWins
          /\ totalDamageRatio' = totalDamageRatio + damageRatio
    /\ simI' = simI + 1
    /\ UNCHANGED << battleCount, simResult, fpc >>

\* the return after the loop
SimulateReturn ==
    /\ UNCHANGED notSim
    /\ fpc = "loop"
    /\ ~(simI < battleCount)
    /\ simResult' = SimulationResult(battleCount, simWins, totalDamageRatio)
    /\ fpc' = "done"
    /\ UNCHANGED << battleCount, simI, simWins, totalDamageRatio >>

(***************************************************************************)
(* ==================== FitnessCalculator.calculate ====================== *)
(* HP and damage are thousandths, times centiseconds, damageRatio and       *)
(* adaptationScore of the result thousandths; the scores are thousandths    *)
(* of a point before rounding and after it.                                 *)
(***************************************************************************)

\* let resistedDamage = 0, never added to
resistedDamage == 0

\* what the loop of runBattle can leave behind: the time, both HP, the damage
\* dealt and taken, and totalAttempedDamage (0 when the battle ended inside
\* the first tick that dealt damage)
EndTimes == {10, 40, 50, 100, 1500, 3000, 6000}
EndWeaponHps == {0, 500, 20000}
EndEnemyHps == {0, 30000}
EndDamagesDealt == {0, 1000, 100000}
EndDamagesTaken == {0, 500, 1000, 80000}

NoBattleResult == [won |-> FALSE, killTime |-> -2]
NoBreakdown == [totalFitness |-> -1]

\* the end of runBattle: won, killTime (-1 = Infinity), damageRatio,
\* adaptationScore and the returned fields calculate reads
BattleResultOf(endTime, w, e, dealt, taken, attempted) ==
    [won               |-> WonOf(w, e),
     killTime          |-> IF WonOf(w, e) THEN endTime ELSE -1,
     damageTaken       |-> taken,
     damageRatio       |-> IF taken > 0 THEN (1000 * dealt) \div taken
                           ELSE IF dealt > 0 THEN 999000 ELSE 1000,
     adaptationScore   |-> IF attempted > 0
                           THEN 1000 - (1000 * resistedDamage) \div Max(1000, attempted)
                           ELSE 500,
     weaponHpRemaining |-> Max(0, w)]

BattleResults ==
    { BattleResultOf(endTime, w, e, dealt, taken, attempted) :
        endTime \in EndTimes, w \in EndWeaponHps, e \in EndEnemyHps,
        dealt \in EndDamagesDealt, taken \in EndDamagesTaken,
        attempted \in {0, 1000, 300000} }

\* mutant: no Math.min(100, ...)
killTimeScore_Uncapped(res) ==
    IF res.won THEN 150000000 \div Max(50, res.killTime) ELSE 0

\* result.won ? Math.min(100, (30 / Math.max(0.5, result.killTime)) * 50) : 0
killTimeScore(res) ==
    IF res.won THEN Min(100000, 150000000 \div Max(50, res.killTime)) ELSE 0

\* Math.min(100, result.damageRatio * 20)
damageEfficiency(res) == Min(100000, res.damageRatio * 20)

\* result.adaptationScore * 100
adaptationScore(res) == res.adaptationScore * 100

\* HP remaining as a percentage of HP remaining plus damage taken
survivalScore(res) ==
    IF res.won
    THEN (100000 * res.weaponHpRemaining) \div Max(1000, res.weaponHpRemaining + res.damageTaken)
    ELSE 0

\* killTimeScore * 0.35 + damageEfficiency * 0.30 + adaptationScore * 0.15 + survivalScore * 0.20
weightedTotal(res) ==
    (35 * killTimeScore(res) + 30 * damageEfficiency(res)
        + 15 * adaptationScore(res) + 20 * survivalScore(res)) \div 100

\* FitnessCalculator.calculate(result)
calculate(res) ==
    [killTimeScore    |-> RoundTenth(killTimeScore(res), 1),
     damageEfficiency |-> RoundTenth(damageEfficiency(res), 1),
     adaptationScore  |-> RoundTenth(adaptationScore(res), 1),
     survivalScore    |-> RoundTenth(survivalScore(res), 1),
     totalFitness     |-> RoundTenth(weightedTotal(res), 1)]

InitFit ==
    /\ battleResult \in BattleResults
    /\ breakdown = NoBreakdown
    /\ kpc = "call"

Calculate ==
    /\ UNCHANGED notFit
    /\ kpc = "call"
    /\ breakdown' = calculate(battleResult)
    /\ kpc' = "done"
    /\ UNCHANGED battleResult

(***************************************************************************)
(* ============ PedigreeSystem.buildAncestorIds over breedings =========== *)
(* An item's id is its position in herd.                                    *)
(***************************************************************************)

\* most children bred in one chain
MaxOffspring == 4

\* items of generation 1 the chain starts from
FounderCount == 3

PedigreeItem(id, parentIds, ancestorIds, breedCount) ==
    [id |-> id, parentIds |-> parentIds, ancestorIds |-> ancestorIds, breedCount |-> breedCount]

\* PedigreeSystem.canBreed
canBreed(item) == item.breedCount < MAX_BREED_COUNT

InitPedigree ==
    /\ herd = [k \in 1 .. FounderCount |-> PedigreeItem(k, << >>, << >>, 0)]

\* breed(parentA, parentB): the child's parentIds and ancestorIds, and the
\* breedCount of both parents raised as the store does
BreedNext ==
    /\ UNCHANGED notPedigree
    /\ Len(herd) < FounderCount + MaxOffspring
    /\ \E a \in DOMAIN herd, b \in DOMAIN herd :
          /\ a # b
          /\ canBreed(herd[a]) /\ canBreed(herd[b])
          /\ herd' = Append(
                [k \in DOMAIN herd |->
                    IF k \in {a, b} THEN [herd[k] EXCEPT !.breedCount = @ + 1] ELSE herd[k]],
                PedigreeItem(Len(herd) + 1, << a, b >>,
                             buildAncestorIds(herd[a], herd[b]), 0))

(***************************************************************************)
(* ==================== useGameStore.breedTransaction ==================== *)
(* Any sequence of breedTransaction calls, as handleBreed makes them: two  *)
(* different parents of the inventory, a new child, a cost, and a material *)
(* type or none; on stores with and without enough energy and materials.   *)
(***************************************************************************)

\* most breedTransaction calls
MaxTransactions == 2

NoTransaction == [cost |-> 0]

TxEnergies == {30, 70}
TxCosts == {25, 40}
TxMaterialStocks == 0 .. 1
TxMaterialTypes == {"none", "fire_shard", "ice_shard"}

InitTransaction ==
    /\ inventory = StartInventory
    /\ equippedWeapon = StarterWeapon
    /\ geneEnergy \in TxEnergies
    /\ materials \in [MaterialTypes -> TxMaterialStocks]
    /\ crystallizedItems = {}
    /\ selectedIds = {}
    /\ labParentA = NoItem
    /\ labParentB = NoItem
    /\ labLockedGenes = {}
    /\ bred = 0
    /\ battles = 0
    /\ txArgs = NoTransaction
    /\ txReturn = FALSE
    /\ txCalls = 0

\* store.breedTransaction(parentA.id, parentB.id, child, totalCost, materialType)
BreedTransaction ==
    /\ UNCHANGED notStoreTx
    /\ txCalls < MaxTransactions
    /\ \E a \in inventory, b \in inventory, cost \in TxCosts, materialType \in TxMaterialTypes :
        LET newChild == StoreItem(FirstChildId + txCalls, Max(a.generation, b.generation) + 1,
                                  0, 0, FALSE, "C", 320)
        IN  /\ a.id # b.id
            /\ txArgs' = [parentAId |-> a.id, parentBId |-> b.id, child |-> newChild,
                          cost |-> cost, materialType |-> materialType]
            /\ IF BreedAffordable(cost, materialType)
               THEN /\ breedTransaction(a.id, b.id, newChild, cost, materialType)
                    /\ txReturn' = TRUE
               ELSE /\ UNCHANGED << inventory, geneEnergy, materials >>
                    /\ txReturn' = FALSE
    /\ txCalls' = txCalls + 1
    /\ UNCHANGED << equippedWeapon, crystallizedItems, selectedIds, labParentA, labParentB,
                    labLockedGenes, bred, battles >>

(***************************************************************************)
(* ===================== useGameStore.moveToCategory ===================== *)
(* The category of an item is the one field of the inventory the other     *)
(* store actions never read; it is kept as a map beside the items.         *)
(***************************************************************************)

\* most moveToCategory calls
MaxMoves == 1

ItemCategories == {"battle", "breeding", "material"}

\* a small game in progress: the starter weapon equipped, a weapon one
\* breeding short of its limit, energy for a breeding; no item moved yet
InitInventory ==
    /\ inventory = {it \in StartInventory : CanSelect(it)}
    /\ equippedWeapon = StarterWeapon
    /\ geneEnergy \in {e \in StartEnergies : e >= BaseBreedCost}
    /\ materials = [t \in MaterialTypes |-> 0]
    /\ crystallizedItems = {}
    /\ selectedIds = {}
    /\ labParentA = NoItem
    /\ labParentB = NoItem
    /\ labLockedGenes = {}
    /\ bred = 0
    /\ battles = 0
    /\ category = [id \in {} |-> "battle"]
    /\ moves = 0

\* moveToCategory(itemId, category): rewrites the inventory item only
moveToCategory(itemId, newCategory) ==
    category' = [id \in DOMAIN category \cup ({itemId} \cap Ids(inventory)) |->
                    IF id = itemId THEN newCategory ELSE category[id]]

\* the category buttons of one item
MoveToCategory ==
    /\ UNCHANGED notCategory
    /\ moves < MaxMoves
    /\ \E item \in inventory, newCategory \in ItemCategories :
        moveToCategory(item.id, newCategory)
    /\ moves' = moves + 1

(***************************************************************************)
(* ========================= applyTraits: stats ========================== *)
(* The stats of applyTraits for a list of different library traits and for *)
(* a reordering of it. Modifiers are percentages, stats exact fractions in *)
(* lowest terms; a stat is written only by its own bonus and then its own  *)
(* penalty, so the exact value is what the code computes.                  *)
(***************************************************************************)

\* longest trait list
MaxOrderTraits == 2

NoStats == [attack |-> 0]

RECURSIVE Gcd(_, _)
Gcd(a, b) == IF b = 0 THEN a ELSE Gcd(b, a % b)

\* a fraction in lowest terms
Lowest(f) ==
    LET g == Gcd(Abs(f.num), f.den) IN Frac(f.num \div g, f.den \div g)

FracMul(a, b) == Lowest(Frac(a.num * b.num, a.den * b.den))

\* the stats applyMod switches on that the battle reads
StatKeys == {"attack", "defense", "maxHp", "attackSpeed"}

\* TRAIT_LIBRARY: the traits with a bonus or penalty on attack, and the
\* berserk trait; instances carry the rank of the definition
OrderPool == {"ELT_001", "ELT_003", "SST_001", "SST_004", "MUT_001", "MUT_002",
              "MUT_003", "PP_001", "PP_004"}

LibraryRank(defId) ==
    CASE defId \in {"SST_001", "MUT_002"} -> "Epic"
      [] defId \in {"MUT_003", "PP_004"} -> "Legendary"
      [] OTHER -> "Rare"

\* def.bonuses[key], in percent; 0 when the definition has no such bonus
LibraryBonus(defId, key) ==
    CASE defId = "ELT_001" /\ key = "attack" -> 40
      [] defId = "ELT_003" /\ key = "attackSpeed" -> 60
      [] defId = "SST_001" /\ key = "attack" -> 80
      [] defId = "SST_004" /\ key = "attack" -> 60
      [] defId = "MUT_001" /\ key = "attack" -> 35
      [] defId = "MUT_002" /\ key = "attack" -> 100
      [] defId = "PP_001" /\ key \in {"attack", "defense", "maxHp"} -> 5
      [] defId = "PP_004" -> 10
      [] OTHER -> 0

\* def.penalties[key], in percent; 0 when the definition has no such penalty
LibraryPenalty(defId, key) ==
    CASE defId = "ELT_001" /\ key = "maxHp" -> -20
      [] defId = "ELT_003" /\ key = "attack" -> -25
      [] defId = "SST_001" /\ key = "maxHp" -> -40
      [] defId = "SST_001" /\ key = "defense" -> -30
      [] defId = "SST_004" /\ key = "defense" -> -50
      [] defId = "MUT_002" /\ key = "defense" -> -100
      [] defId = "MUT_003" /\ key \in {"attack", "defense", "maxHp"} -> -15
      [] OTHER -> 0

\* def.berserkThreshold is set
HasBerserkThreshold(defId) == defId = "MUT_002"

\* SYNERGY_PAIRS with a bonus on one of the stats, in order
SYNERGY_PAIRS ==
    << [traitA |-> "ELT_001", traitB |-> "SST_001", key |-> "attack", bonus |-> 100],
       [traitA |-> "SST_004", traitB |-> "MUT_001", key |-> "attack", bonus |-> 100] >>

\* step 2: bonusAccum[key] or penaltyAccum[key], filled in the order of activeTraits
RECURSIVE Accum(_, _, _, _)
Accum(active, key, isBonus, isBerserk) ==
    IF active = << >> THEN << >>
    ELSE LET defId == active[1].defId
             val == IF isBonus THEN LibraryBonus(defId, key) ELSE LibraryPenalty(defId, key)
             rest == Accum(Tail(active), key, isBonus, isBerserk)
         IN  IF (HasBerserkThreshold(defId) /\ ~isBerserk) \/ val = 0 THEN rest
             ELSE << val >> \o rest

\* step 3: the synergy bonuses pushed to bonusAccum[key]
RECURSIVE SynergyBonuses(_, _, _)
SynergyBonuses(pairs, traitIds, key) ==
    IF pairs = << >> THEN << >>
    ELSE LET syn == pairs[1]
             rest == SynergyBonuses(Tail(pairs), traitIds, key)
         IN  IF syn.traitA \in traitIds /\ syn.traitB \in traitIds /\ syn.key = key
             THEN << syn.bonus >> \o rest
             ELSE rest

\* 1 + finalVal for the values of one stat, 1 when there are none
ModFactor(values, isBonus) ==
    IF values = << >> THEN Frac(1, 1)
    ELSE LET modVal == applyMod(values, isBonus)
         IN  Lowest(Frac(modVal.den + modVal.num, modVal.den))

\* Math.max(floor, value)
FracAtLeast(floor, value) ==
    IF value.num < floor * value.den THEN Frac(floor, 1) ELSE value

\* Math.max(0.1, Math.min(3.0, value))
ClampSpeed(value) ==
    IF value.num > 3 * value.den THEN Frac(3, 1)
    ELSE IF 10 * value.num < value.den THEN Frac(1, 10)
    ELSE value

\* baseStats of the calls
BaseStats == [attack |-> 10, defense |-> 5, maxHp |-> 100, attackSpeed |-> 1]

\* applyTraits(baseStats, traits, berserkActive).stats
applyTraitsStats(baseStats, traits, isBerserk) ==
    LET activeTraits == applyTraits(traits).activeTraits
        traitIds == {activeTraits[k].defId : k \in DOMAIN activeTraits}
        bonusAccum(key) == Accum(activeTraits, key, TRUE, isBerserk)
                               \o SynergyBonuses(SYNERGY_PAIRS, traitIds, key)
        penaltyAccum(key) == Accum(activeTraits, key, FALSE, isBerserk)
        scaled(key) == FracMul(FracMul(Frac(baseStats[key], 1), ModFactor(bonusAccum(key), TRUE)),
                               ModFactor(penaltyAccum(key), FALSE))
        slowed == LET b == ModFactor(bonusAccum("attackSpeed"), TRUE)
                      p == ModFactor(penaltyAccum("attackSpeed"), FALSE)
                  IN  FracMul(FracMul(Frac(baseStats.attackSpeed, 1), Frac(b.den, b.num)),
                              Frac(p.den, p.num))
    IN  [attack |-> FracAtLeast(1, scaled("attack")),
         defense |-> FracAtLeast(0, scaled("defense")),
         maxHp |-> FracAtLeast(10, scaled("maxHp")),
         attackSpeed |-> ClampSpeed(slowed)]

\* lists of different library traits
OrderLists ==
    {l \in UNION {[1 .. n -> OrderPool] : n \in 0 .. MaxOrderTraits} :
        \A i \in DOMAIN l, j \in DOMAIN l : i # j => l[i] # l[j]}

\* the reorderings of a list
Reorderings(l) == {p \in OrderLists : Len(p) = Len(l) /\ Range(p) = Range(l)}

TraitInstances(l) == [k \in DOMAIN l |-> [defId |-> l[k], rank |-> LibraryRank(l[k])]]

InitOrder ==
    /\ orderTraits \in OrderLists
    /\ orderPermuted \in Reorderings(orderTraits)
    /\ orderBerserk \in BOOLEAN
    /\ orderStats = NoStats
    /\ orderStatsPermuted = NoStats
    /\ opc = "call"

\* applyTraits on the list and on its reordering
ApplyTraitsOrders ==
    /\ UNCHANGED notOrder
    /\ opc = "call"
    /\ orderStats' = applyTraitsStats(BaseStats, TraitInstances(orderTraits), orderBerserk)
    /\ orderStatsPermuted' =
            applyTraitsStats(BaseStats, TraitInstances(orderPermuted), orderBerserk)
    /\ opc' = "done"
    /\ UNCHANGED << orderTraits, orderPermuted, orderBerserk >>

(***************************************************************************)
(* ========================== stage progression ========================== *)
(* A stage run of BattleStatsPanel.runBattle ends cleared, with the weapon *)
(* destroyed, or aborted; the buttons of the battle panel and of the lab   *)
(* then move the stage. A weapon is equipped throughout. A run and the     *)
(* store calls of one click are one step.                                  *)
(***************************************************************************)

\* most stage runs
MaxStageRuns == 4

Tabs == {"battle", "lab", "database"}
RunOutcomes == {"cleared", "destroyed", "aborted"}

InitStage ==
    /\ stage = 1
    /\ maxClearedStage = 0
    /\ isBreedingPhase = FALSE
    /\ stageSummary = "none"
    /\ activeTab = "battle"
    /\ clearedRuns = {}
    /\ stageRuns = 0

\* advanceStage()
advanceStage ==
    /\ stage' = stage + 1
    /\ maxClearedStage' = Max(maxClearedStage, stage)

\* setStage(stage)
setStage(target) == Max(1, Min(target, maxClearedStage + 1))

\* the end of runBattle: summary and breeding phase after a cleared or a
\* failed stage, nothing after an abort
RunEnd(outcome) ==
    /\ stageSummary' = IF outcome = "aborted" THEN stageSummary ELSE outcome
    /\ isBreedingPhase' = (outcome # "aborted" \/ isBreedingPhase)

\* setActiveTab(tab)
SetActiveTab ==
    /\ UNCHANGED notStage
    /\ \E tab \in Tabs : tab # activeTab /\ activeTab' = tab
    /\ UNCHANGED << stage, maxClearedStage, isBreedingPhase, stageSummary, clearedRuns,
                    stageRuns >>

\* the start button: runBattle on the current stage
RunBattle ==
    /\ UNCHANGED notStage
    /\ activeTab = "battle" /\ ~isBreedingPhase
    /\ stageRuns < MaxStageRuns
    /\ \E outcome \in RunOutcomes :
        /\ RunEnd(outcome)
        /\ clearedRuns' = IF outcome = "cleared" THEN clearedRuns \cup {stage} ELSE clearedRuns
    /\ stageRuns' = stageRuns + 1
    /\ UNCHANGED << stage, maxClearedStage, activeTab >>

\* the loop of the two continuous-run buttons, from a stage: one run; when
\* it neither cleared nor failed the stage the loop advances to the next
\* stage if that one was cleared before, and stops on the abort
ContinuousRun(from) ==
    /\ stageRuns < MaxStageRuns
    /\ from <= maxClearedStage
    /\ \E outcome \in RunOutcomes :
        /\ clearedRuns' = IF outcome = "cleared" THEN clearedRuns \cup {from} ELSE clearedRuns
        /\ IF outcome = "aborted" /\ from + 1 <= maxClearedStage
           THEN /\ stage' = from + 1
                /\ maxClearedStage' = Max(maxClearedStage, from)
                /\ isBreedingPhase' = FALSE
                /\ stageSummary' = "none"
                /\ activeTab' = "battle"
           ELSE /\ stage' = from
                /\ maxClearedStage' = maxClearedStage
                /\ isBreedingPhase' = (outcome # "aborted")
                /\ stageSummary' = IF outcome = "aborted" THEN "none" ELSE outcome
                /\ activeTab' = activeTab
    /\ stageRuns' = stageRuns + 1

\* the continuous-run button beside the start button
ContinuousFromStage ==
    /\ UNCHANGED notStage
    /\ activeTab = "battle" /\ ~isBreedingPhase
    /\ ContinuousRun(stage)

\* breeding phase, stage cleared: the next-stage button
NextStageButton ==
    /\ UNCHANGED notStage
    /\ activeTab = "battle" /\ isBreedingPhase
    /\ stageSummary = "cleared"
    /\ advanceStage
    /\ isBreedingPhase' = FALSE
    /\ activeTab' = "battle"
    /\ stageSummary' = "none"
    /\ UNCHANGED << clearedRuns, stageRuns >>

\* breeding phase, stage not cleared: the retry button
RetryButton ==
    /\ UNCHANGED notStage
    /\ activeTab = "battle" /\ isBreedingPhase
    /\ stageSummary # "cleared"
    /\ isBreedingPhase' = FALSE
    /\ activeTab' = "battle"
    /\ stageSummary' = "none"
    /\ UNCHANGED << stage, maxClearedStage, clearedRuns, stageRuns >>

\* breeding phase, stage not cleared: the continuous-run button from stage 1
ContinuousFromFirst ==
    /\ UNCHANGED notStage
    /\ activeTab = "battle" /\ isBreedingPhase
    /\ stageSummary # "cleared"
    /\ maxClearedStage >= 1
    /\ ContinuousRun(setStage(1))

\* breeding phase: the button that opens the lab
LabButton ==
    /\ UNCHANGED notStage
    /\ activeTab = "battle" /\ isBreedingPhase
    /\ isBreedingPhase' = FALSE
    /\ stageSummary' = "none"
    /\ activeTab' = "lab"
    /\ UNCHANGED << stage, maxClearedStage, clearedRuns, stageRuns >>

\* BreedingLab.handleEquipAndResume(item), offered during the breeding phase
HandleEquipAndResume ==
    /\ UNCHANGED notStage
    /\ activeTab = "lab" /\ isBreedingPhase
    /\ advanceStage
    /\ isBreedingPhase' = FALSE
    /\ activeTab' = "battle"
    /\ stageSummary' = "none"
    /\ UNCHANGED << clearedRuns, stageRuns >>

(***************************************************************************)
(* ============================ Specifications =========================== *)
(***************************************************************************)

\* the parts of the program a specification does not run stay as constructed
IdleBattle ==
    /\ sc = [w |-> PassiveWeapon, e |-> PassiveEnemy, traits |-> << >>,
             initialWeaponHp |-> -1, maxTime |-> DefaultMaxTime]
    /\ time = 0 /\ wHp = 0 /\ eHp = 0 /\ wCd = 0 /\ eCd = 0 /\ wAtk = 0 /\ wDef = 0
    /\ berserkActive = FALSE /\ pc = "idle" /\ endLogs = << >> /\ logs = << >>
    /\ ticks = 0 /\ acts = 0
    /\ result = NoResult

IdleBreed ==
    /\ bsc = BreedCall(ItemA, ItemB, 0, {}) /\ stageArg = 0 /\ bpc = "idle"
    /\ childGenome = NoGenome /\ lockedGenes = {} /\ inbreed = NotInbred
    /\ crossOut = NoGenome /\ mutOut = NoGenome /\ mutated = {} /\ child = NoChild
    /\ stageGenome = NoGenome

IdleSoftCap ==
    /\ capIn = NoGenome /\ capOnce = NoGenome /\ capTwice = NoGenome /\ cpc = "idle"

IdleArchive ==
    /\ bestAncestors = << >> /\ logged = << >>

IdleStore ==
    /\ inventory = {} /\ equippedWeapon = NoItem /\ geneEnergy = 0
    /\ materials = [t \in MaterialTypes |-> 0] /\ crystallizedItems = {}
    /\ selectedIds = {} /\ labParentA = NoItem /\ labParentB = NoItem /\ labLockedGenes = {}
    /\ bred = 0 /\ battles = 0

IdleMastery ==
    /\ lastItemId = 0 /\ lastFitness = 0 /\ masteryCalls = 0

IdleBoost ==
    /\ boostGenome = NoGenome /\ boostElement = "Fire" /\ boostAmount = 0
    /\ boosted = NoGenome /\ rpc = "idle"

IdleEvo ==
    /\ generationCount = 1 /\ playerElementDamage = << >> /\ spawned = NoSpawn
    /\ spawns = 0 /\ report = NoReport

IdleTrait ==
    /\ traitsIn = << >> /\ traitsOut = NoTraitResult /\ tpc = "idle"

IdleStack ==
    /\ stackValues = << >> /\ stackIsBonus = FALSE /\ finalVal = Frac(0, 1) /\ mpc = "idle"

IdleSelect ==
    /\ population = << >> /\ selected = NotCalled /\ qpc = "idle"

IdleSim ==
    /\ battleCount = 0 /\ simI = 0 /\ simWins = 0 /\ totalDamageRatio = 0
    /\ simResult = NoSimulation /\ fpc = "idle"

IdleFit ==
    /\ battleResult = NoBattleResult /\ breakdown = NoBreakdown /\ kpc = "idle"

IdlePedigree ==
    /\ herd = << >>

IdleTx ==
    /\ txArgs = NoTransaction /\ txReturn = FALSE /\ txCalls = 0

IdleCategory ==
    /\ category = [id \in {} |-> "battle"] /\ moves = 0

IdleOrder ==
    /\ orderTraits = << >> /\ orderPermuted = << >> /\ orderBerserk = FALSE
    /\ orderStats = NoStats /\ orderStatsPermuted = NoStats /\ opc = "idle"

IdleStage ==
    /\ stage = 0 /\ maxClearedStage = 0 /\ isBreedingPhase = FALSE /\ stageSummary = "none"
    /\ activeTab = "none" /\ clearedRuns = {} /\ stageRuns = 0

InitSpecBattle == InitBattle /\ IdleBreed /\ IdleSoftCap /\ IdleArchive /\ IdleStore /\ IdleMastery /\ IdleBoost /\ IdleEvo /\ IdleTrait /\ IdleStack /\ IdleSelect /\ IdleSim /\ IdleFit /\ IdlePedigree /\ IdleTx /\ IdleCategory /\ IdleOrder /\ IdleStage

NextBattle ==
    \/ TickStart
    \/ LoopExit
    \/ WeaponPhase
    \/ EnemyPhase
    \/ Return

SpecBattle == InitSpecBattle /\ [][NextBattle]_vars

InitSpecBreed == InitBreed /\ IdleBattle /\ IdleSoftCap /\ IdleArchive /\ IdleStore /\ IdleMastery /\ IdleBoost /\ IdleEvo /\ IdleTrait /\ IdleStack /\ IdleSelect /\ IdleSim /\ IdleFit /\ IdlePedigree /\ IdleTx /\ IdleCategory /\ IdleOrder /\ IdleStage

NextBreed ==
    \/ BreedCrossover
    \/ BreedInbreed
    \/ BreedFinish
    \/ CreateStageGenome

SpecBreed == InitSpecBreed /\ [][NextBreed]_vars

InitSpecSoftCap == InitSoftCap /\ IdleBattle /\ IdleBreed /\ IdleArchive /\ IdleStore /\ IdleMastery /\ IdleBoost /\ IdleEvo /\ IdleTrait /\ IdleStack /\ IdleSelect /\ IdleSim /\ IdleFit /\ IdlePedigree /\ IdleTx /\ IdleCategory /\ IdleOrder /\ IdleStage

NextSoftCap ==
    \/ SoftCapFirst
    \/ SoftCapSecond

SpecSoftCap == InitSpecSoftCap /\ [][NextSoftCap]_vars

InitSpecArchive == InitArchive /\ IdleBattle /\ IdleBreed /\ IdleSoftCap /\ IdleStore /\ IdleMastery /\ IdleBoost /\ IdleEvo /\ IdleTrait /\ IdleStack /\ IdleSelect /\ IdleSim /\ IdleFit /\ IdlePedigree /\ IdleTx /\ IdleCategory /\ IdleOrder /\ IdleStage

NextArchive == logEnemyDeath

SpecArchive == InitSpecArchive /\ [][NextArchive]_vars

InitSpecDatabase == InitStore /\ IdleBattle /\ IdleBreed /\ IdleSoftCap /\ IdleArchive /\ IdleMastery /\ IdleBoost /\ IdleEvo /\ IdleTrait /\ IdleStack /\ IdleSelect /\ IdleSim /\ IdleFit /\ IdlePedigree /\ IdleTx /\ IdleCategory /\ IdleOrder /\ IdleStage

\* the inventory screen: selection, lock, equip, decomposition, bulk crystallization
NextDatabase ==
    \/ ToggleSelection
    \/ SelectByRank
    \/ SelectExpired
    \/ ClearSelection
    \/ HandleDecompose
    \/ DecomposeOne
    \/ ToggleItemLock
    \/ EquipWeapon
    \/ HandleBulkCrystallize

SpecDatabase == InitSpecDatabase /\ [][NextDatabase]_vars

InitSpecLab == InitStore /\ IdleBattle /\ IdleBreed /\ IdleSoftCap /\ IdleArchive /\ IdleMastery /\ IdleBoost /\ IdleEvo /\ IdleTrait /\ IdleStack /\ IdleSelect /\ IdleSim /\ IdleFit /\ IdlePedigree /\ IdleTx /\ IdleCategory /\ IdleOrder /\ IdleStage

\* the breeding screen, and the battles that train the equipped weapon
NextLab ==
    \/ HandleSelect
    \/ ToggleGeneLock
    \/ HandleBreed
    \/ HandleCrystallize
    \/ HandleBulkCrystallize
    \/ EquipWeapon
    \/ UpdateMastery

SpecLab == InitSpecLab /\ [][NextLab]_vars

InitSpecMastery == InitMastery /\ IdleBattle /\ IdleBreed /\ IdleSoftCap /\ IdleArchive /\ IdleBoost /\ IdleEvo /\ IdleTrait /\ IdleStack /\ IdleSelect /\ IdleSim /\ IdleFit /\ IdlePedigree /\ IdleTx /\ IdleCategory /\ IdleOrder /\ IdleStage

NextMastery == UpdateMasteryCall

SpecMastery == InitSpecMastery /\ [][NextMastery]_vars

InitSpecBoost == InitBoost /\ IdleBattle /\ IdleBreed /\ IdleSoftCap /\ IdleArchive /\ IdleStore /\ IdleMastery /\ IdleEvo /\ IdleTrait /\ IdleStack /\ IdleSelect /\ IdleSim /\ IdleFit /\ IdlePedigree /\ IdleTx /\ IdleCategory /\ IdleOrder /\ IdleStage

NextBoost == BoostResistance

SpecBoost == InitSpecBoost /\ [][NextBoost]_vars

InitSpecEvo == InitEvo /\ InitArchive /\ IdleBattle /\ IdleBreed /\ IdleSoftCap /\ IdleStore /\ IdleMastery /\ IdleBoost /\ IdleTrait /\ IdleStack /\ IdleSelect /\ IdleSim /\ IdleFit /\ IdlePedigree /\ IdleTx /\ IdleCategory /\ IdleOrder /\ IdleStage

\* one EnemyEvolution instance over a run of battles
NextEvo ==
    \/ LogFirstDeaths
    \/ logPlayerAttack
    \/ resetStageTracking
    \/ spawnEnemy
    \/ spawnBoss
    \/ generateCounterReport

SpecEvo == InitSpecEvo /\ [][NextEvo]_vars

InitSpecTraits == InitTraits /\ IdleBattle /\ IdleBreed /\ IdleSoftCap /\ IdleArchive /\ IdleStore /\ IdleMastery /\ IdleBoost /\ IdleEvo /\ IdleStack /\ IdleSelect /\ IdleSim /\ IdleFit /\ IdlePedigree /\ IdleTx /\ IdleCategory /\ IdleOrder /\ IdleStage

NextTraits == ApplyTraits

SpecTraits == InitSpecTraits /\ [][NextTraits]_vars

InitSpecStack == InitStack /\ IdleBattle /\ IdleBreed /\ IdleSoftCap /\ IdleArchive /\ IdleStore /\ IdleMastery /\ IdleBoost /\ IdleEvo /\ IdleTrait /\ IdleSelect /\ IdleSim /\ IdleFit /\ IdlePedigree /\ IdleTx /\ IdleCategory /\ IdleOrder /\ IdleStage

NextStack == ApplyMod

SpecStack == InitSpecStack /\ [][NextStack]_vars

InitSpecSelect == InitSelect /\ IdleBattle /\ IdleBreed /\ IdleSoftCap /\ IdleArchive /\ IdleStore /\ IdleMastery /\ IdleBoost /\ IdleEvo /\ IdleTrait /\ IdleStack /\ IdleSim /\ IdleFit /\ IdlePedigree /\ IdleTx /\ IdleCategory /\ IdleOrder /\ IdleStage

NextSelect == SelectParent

SpecSelect == InitSpecSelect /\ [][NextSelect]_vars

InitSpecSim == InitSim /\ IdleBattle /\ IdleBreed /\ IdleSoftCap /\ IdleArchive /\ IdleStore /\ IdleMastery /\ IdleBoost /\ IdleEvo /\ IdleTrait /\ IdleStack /\ IdleSelect /\ IdleFit /\ IdlePedigree /\ IdleTx /\ IdleCategory /\ IdleOrder /\ IdleStage

NextSim ==
    \/ SimulateBattle
    \/ SimulateReturn

SpecSim == InitSpecSim /\ [][NextSim]_vars

InitSpecFit == InitFit /\ IdleBattle /\ IdleBreed /\ IdleSoftCap /\ IdleArchive /\ IdleStore /\ IdleMastery /\ IdleBoost /\ IdleEvo /\ IdleTrait /\ IdleStack /\ IdleSelect /\ IdleSim /\ IdlePedigree /\ IdleTx /\ IdleCategory /\ IdleOrder /\ IdleStage

NextFit == Calculate

SpecFit == InitSpecFit /\ [][NextFit]_vars

InitSpecPedigree == InitPedigree /\ IdleBattle /\ IdleBreed /\ IdleSoftCap /\ IdleArchive /\ IdleStore /\ IdleMastery /\ IdleBoost /\ IdleEvo /\ IdleTrait /\ IdleStack /\ IdleSelect /\ IdleSim /\ IdleFit /\ IdleTx /\ IdleCategory /\ IdleOrder /\ IdleStage

NextPedigree == BreedNext

SpecPedigree == InitSpecPedigree /\ [][NextPedigree]_vars

InitSpecTransaction == InitTransaction /\ IdleBattle /\ IdleBreed /\ IdleSoftCap /\ IdleArchive /\ IdleMastery /\ IdleBoost /\ IdleEvo /\ IdleTrait /\ IdleStack /\ IdleSelect /\ IdleSim /\ IdleFit /\ IdlePedigree /\ IdleCategory /\ IdleOrder /\ IdleStage

NextTransaction == BreedTransaction

SpecTransaction == InitSpecTransaction /\ [][NextTransaction]_vars

InitSpecInventory == InitInventory /\ IdleBattle /\ IdleBreed /\ IdleSoftCap /\ IdleArchive /\ IdleMastery /\ IdleBoost /\ IdleEvo /\ IdleTrait /\ IdleStack /\ IdleSelect /\ IdleSim /\ IdleFit /\ IdlePedigree /\ IdleTx /\ IdleOrder /\ IdleStage

\* every store action that touches the inventory or the equipped weapon
NextInventory ==
    \/ EquipWeapon
    \/ UpdateMastery
    \/ HandleSelect
    \/ HandleBreed
    \/ ToggleItemLock
    \/ MoveToCategory
    \/ DecomposeOne
    \/ HandleCrystallize
    \/ HandleBulkCrystallize

SpecInventory == InitSpecInventory /\ [][NextInventory]_vars

InitSpecOrder == InitOrder /\ IdleBattle /\ IdleBreed /\ IdleSoftCap /\ IdleArchive /\ IdleStore /\ IdleMastery /\ IdleBoost /\ IdleEvo /\ IdleTrait /\ IdleStack /\ IdleSelect /\ IdleSim /\ IdleFit /\ IdlePedigree /\ IdleTx /\ IdleCategory /\ IdleStage

NextOrder == ApplyTraitsOrders

SpecOrder == InitSpecOrder /\ [][NextOrder]_vars

InitSpecStage == InitStage /\ IdleBattle /\ IdleBreed /\ IdleSoftCap /\ IdleArchive /\ IdleStore /\ IdleMastery /\ IdleBoost /\ IdleEvo /\ IdleTrait /\ IdleStack /\ IdleSelect /\ IdleSim /\ IdleFit /\ IdlePedigree /\ IdleTx /\ IdleCategory /\ IdleOrder

NextStage ==
    \/ SetActiveTab
    \/ RunBattle
    \/ ContinuousFromStage
    \/ NextStageButton
    \/ RetryButton
    \/ ContinuousFromFirst
    \/ LabButton
    \/ HandleEquipAndResume

SpecStage == InitSpecStage /\ [][NextStage]_vars

\* runBattle is one synchronous call: the loop keeps stepping until it returns
SpecBattleLive == SpecBattle /\ WF_vars(NextBattle)

(***************************************************************************)
(* ================================ Claims =============================== *)
(***************************************************************************)

\* HP below which the log replay of BattleStatsPanel stops (0.01 HP)
DeathEpsilon == 10

\* C1 (as stated): runBattle executes at most maxTime / 0.1 ticks.
C1_TicksAtMostMaxTimeOverInterval == ticks * tickInterval <= sc.maxTime

\* C1 (amended): runBattle executes at most ceil(maxTime / 0.1) ticks -- a tick
\* starts only while fewer than maxTime seconds have elapsed -- and then
\* returns a result, whatever the actions, heals and lifesteal.
C1_TickBoundAndReturn ==
    /\ [](ticks > 0 => (ticks - 1) * tickInterval < sc.maxTime)
    /\ [](pc = "done" => result # NoResult)
    /\ <>(pc = "done")

C1_Witness == pc = "done" /\ sc.maxTime = DefaultMaxTime /\ ticks * tickInterval = DefaultMaxTime

\* C2: a returned battle carries exactly one of the four end reasons, won holds
\* exactly when that reason is "enemy killed", and a timeout, a battle started
\* at 0 HP and a battle with both sides at 0 HP return won = FALSE.
C2_OneReasonAndWon ==
    pc = "done" =>
        /\ Len(endLogs) = 1
        /\ endLogs[1] \in Reasons
        /\ result.won <=> endLogs[1] = "enemy_killed"
        /\ endLogs[1] = "timeout" => (time >= sc.maxTime /\ wHp > 0 /\ eHp > 0)
        /\ sc.initialWeaponHp = 0 => (~result.won /\ endLogs[1] = "weapon_destroyed")
        /\ (wHp <= 0 /\ eHp <= 0) => ~result.won

C2_Witness == pc = "done" /\ result.won /\ acts >= 2 /\ endLogs = << "enemy_killed" >>

\* C3: once either HP is at or below 0 no further action is executed and no
\* further tick starts.
C3_NoActionAfterDeath ==
    [][(wHp <= 0 \/ eHp <= 0) => (acts' = acts /\ ticks' = ticks)]_vars

C3_Witness == pc = "return" /\ eHp = 0 /\ wHp > 0 /\ acts >= 2 /\ eCd <= tickInterval

\* C4 (as stated): a combatant whose HP is below 0.01 is treated as dead, also
\* when the HP is still above 0: no action is executed from then on.
C4_DeadBelowEpsilon ==
    [][(wHp < DeathEpsilon \/ eHp < DeathEpsilon) => acts' = acts]_vars

\* the case of C5: unrelated parents, unused, no locks, mutationRate = 0
C5_Case ==
    /\ bpc = "done" /\ stageArg = 0
    /\ ~inbreed.isInbred
    /\ bsc.parentA.breedCount = 0 /\ bsc.parentB.breedCount = 0
    /\ bsc.mutationRate = 0 /\ bsc.lockedGenes = {}

C5_Header ==
    /\ child.generation = Max(bsc.parentA.generation, bsc.parentB.generation) + 1
    /\ child.breedCount = 0
    /\ child.parentIds = << bsc.parentA.id, bsc.parentB.id >>

\* C5 (as stated): with mutationRate = 0 and no locks, unrelated unused parents
\* get a child of generation max + 1, breedCount 0, both parent ids, and every
\* gene of the child is the gene of one of the parents at that index.
C5_EveryGeneFromAParent ==
    C5_Case =>
        /\ C5_Header
        /\ \A i \in GeneIdx :
              child.genome[i] \in {bsc.parentA.genome[i], bsc.parentB.genome[i]}

\* C5 (amended): generation, breedCount and parentIds are as stated; the
\* genome is applySoftCap of a genome whose genes are a parent's gene at every
\* index mutation did not change (mutation still runs at rate generation *
\* 0.005), so the child's genes are the parents' at those indices when the
\* sum is at most 7.0 and are scaled down, none raised, when it is above.
C5_GenesFromParentsUnlessMutatedOrCapped ==
    C5_Case =>
        /\ C5_Header
        /\ \A i \in GeneIdx \ mutated :
              mutOut[i] \in {bsc.parentA.genome[i], bsc.parentB.genome[i]}
        /\ GeneSum(mutOut) <= SoftCapTotal => child.genome = mutOut
        /\ GeneSum(mutOut) > SoftCapTotal =>
              \A i \in GeneIdx : child.genome[i] <= mutOut[i]

C5_Witness ==
    /\ C5_Case /\ mutated = {}
    /\ child.genome[0] = bsc.parentB.genome[0]
    /\ child.genome[8] = bsc.parentA.genome[8]
    /\ bsc.parentA.genome[0] # bsc.parentB.genome[0]
    /\ bsc.parentA.genome[8] # bsc.parentB.genome[8]

\* C6 (as stated): applySoftCap(applySoftCap(g)) = applySoftCap(g) for every
\* genome g, also when its genes sum to more than the cap.
C6_Idempotent == cpc = "done" => capTwice = capOnce

\* C6 (amended): applySoftCap returns g itself, and so is idempotent, when the
\* genes of g sum to at most 7.0; above 7.0 it removes a tenth of the excess,
\* the result still sums to more than 7.0, and a second application lowers
\* the genes again.
C6_IdempotentWithinCapOnly ==
    cpc = "done" =>
        /\ GeneSum(capIn) <= SoftCapTotal => (capOnce = capIn /\ capTwice = capOnce)
        /\ GeneSum(capIn) > SoftCapTotal =>
              /\ GeneSum(capOnce) > SoftCapTotal
              /\ GeneSum(capOnce) < GeneSum(capIn)
              /\ capTwice # capOnce
              /\ \A i \in GeneIdx : capTwice[i] <= capOnce[i] /\ capOnce[i] <= capIn[i]

C6_Witness ==
    /\ cpc = "done" /\ GeneSum(capIn) = 8000
    /\ capOnce[0] = 790 /\ capTwice[0] = 781

ValidGenome(g) == DOMAIN g = 0 .. 9 /\ \A i \in DOMAIN g : g[i] >= 0 /\ g[i] <= 1000

\* C7: every genome crossover, applyInbreedEffects, mutate, breed and
\* createStageGenome return has exactly 10 genes, each in [0, 1].
C7_GenomesStayValid ==
    /\ (stageArg = 0 /\ bpc \in {"inbreed", "mutate", "done"}) =>
            (ValidGenome(crossOut) /\ ValidGenome(childGenome))
    /\ (stageArg = 0 /\ bpc = "done") => (ValidGenome(mutOut) /\ ValidGenome(child.genome))
    /\ (stageArg # 0 /\ bpc = "done") => ValidGenome(stageGenome)

C7_Witness ==
    /\ bpc = "done" /\ stageArg = 0
    /\ 2 * inbreed.coefficient.n > inbreed.coefficient.d
    /\ inbreed.fixedGenes # {}
    /\ inbreed.geneticDisease = "element_instability"
    /\ \E i \in mutated : mutOut[i] = 1000
    /\ \E i \in GeneIdx \ mutated : bsc.parentA.genome[i] < 1000 /\ mutOut[i] = 1000

ArchiveCount(f) == Cardinality({i \in DOMAIN bestAncestors : bestAncestors[i].fitness = f})

\* C8: the archive holds at most 20 items in non-increasing fitness order,
\* all of them logged, and a logged item is missing from it only when 20
\* items of at least its fitness are kept.
C8_ArchiveIsTop20 ==
    /\ Len(bestAncestors) <= 20
    /\ Len(bestAncestors) = Min(20, TotalLogged)
    /\ \A i \in 1 .. (Len(bestAncestors) - 1) :
          bestAncestors[i].fitness >= bestAncestors[i + 1].fitness
    /\ \A f \in FitnessValues :
          /\ ArchiveCount(f) <= logged[f]
          /\ ArchiveCount(f) < logged[f] =>
                /\ Len(bestAncestors) = 20
                /\ \A i \in DOMAIN bestAncestors : bestAncestors[i].fitness >= f

C8_Witness ==
    /\ TotalLogged = 22 /\ Len(bestAncestors) = 20
    /\ bestAncestors[1].fitness > bestAncestors[20].fitness
    /\ \E f \in FitnessValues : ArchiveCount(f) > 0 /\ ArchiveCount(f) < logged[f]

\* C9: no item's breedCount ever exceeds 3: an item that has reached 3 is not
\* held as a parent by the lab, and no step raises its breedCount further.
C9_BreedCountCapped ==
    /\ [](\A it \in inventory :
            /\ it.breedCount <= MAX_BREED_COUNT
            /\ it.breedCount >= MAX_BREED_COUNT => (labParentA.id # it.id /\ labParentB.id # it.id))
    /\ [][\A it \in inventory : it.breedCount >= MAX_BREED_COUNT =>
            \A jt \in inventory' : jt.id = it.id => jt.breedCount = it.breedCount]_vars

\* the weapon bred twice before has reached the limit through a breed
\* transaction, and another transaction has gone through with other parents
C9_Witness ==
    /\ bred >= 2
    /\ \E it \in inventory : it.id = 2 /\ it.breedCount = MAX_BREED_COUNT
    /\ \E it \in inventory : it.id = 3 /\ it.breedCount = 1

\* C10: a bulk destructive operation (decompose of the selected set, bulk
\* crystallization) never removes an item whose lock flag is set.
C10_LockedSurvivesBulk ==
    [][(HandleDecompose \/ HandleBulkCrystallize) =>
        \A it \in inventory : it.locked => \E jt \in inventory' : jt.id = it.id]_vars

\* the mastery the claim expects after a call with this fitness
C11_Expected(mastery, fitness) ==
    LET delta == IF fitness >= 80 THEN 3 ELSE IF fitness >= 50 THEN 2 ELSE 0
    IN  IF mastery + delta > 100 THEN 100 ELSE mastery + delta

\* C11: over any sequence of updateMastery calls an item's mastery never
\* decreases and never exceeds 100; the called item gains 3 for fitness >= 80,
\* 2 for fitness in [50, 80), 0 otherwise, capped at 100; other items keep theirs.
C11_MasteryMonotoneCapped ==
    /\ [](\A it \in inventory : it.mastery >= 0 /\ it.mastery <= 100)
    /\ [][masteryCalls' = masteryCalls + 1 =>
            \A it \in inventory : \E jt \in inventory' :
                /\ jt.id = it.id
                /\ jt.mastery >= it.mastery
                /\ jt.mastery = IF it.id = lastItemId'
                                THEN C11_Expected(it.mastery, lastFitness')
                                ELSE it.mastery]_vars

\* a call with fitness >= 80 on an item at 98 was capped at 100
C11_Witness ==
    /\ masteryCalls >= 1
    /\ lastFitness >= 80
    /\ \E it \in inventory : it.id = lastItemId /\ it.mastery = 100
    /\ \E it \in inventory : it.id # lastItemId /\ it.mastery = 98

\* C12: after boostResistance(genome, E, amount) with amount > 0 the decoded
\* resistance to E is at least the decoded resistance to E before the boost,
\* for E in {Fire, Ice, Lightning}.
C12_BoostRaisesResistance ==
    rpc = "done" =>
        decodeResist(boosted, boostElement) >= decodeResist(boostGenome, boostElement)

\* the element whose resistance a report lists as reinforced, "none" when it lists none
C13_Reinforced(r) ==
    IF \E e \in ElementLabels, k \in DOMAIN r.resistanceBoost :
            r.resistanceBoost[k].gene = ResistanceGene(e)
    THEN CHOOSE e \in ElementLabels :
            \E k \in DOMAIN r.resistanceBoost : r.resistanceBoost[k].gene = ResistanceGene(e)
    ELSE "none"

\* C13 (as stated): in every EnemyEvolution state the counter report lists a
\* reinforced resistance for element E exactly when spawnEnemy and spawnBoss,
\* called in that state, boost the resistance against E.
C13_ReportMatchesSpawns ==
    [][spawns' = spawns + 1 =>
        \A stageLevel \in ReportStages :
            spawned'.boost = C13_Reinforced(CounterReport(stageLevel))]_vars

\* C14: every trait passed to applyTraits is in the returned activeTraits or
\* has its definition id in the returned lostTraits, for lists of any length.
C14_NoTraitDroppedUnreported ==
    tpc = "done" =>
        \A k \in DOMAIN traitsIn :
            \/ \E a \in DOMAIN traitsOut.activeTraits : traitsOut.activeTraits[a].obj = k
            \/ \E l \in DOMAIN traitsOut.lostTraits : traitsOut.lostTraits[l] = traitsIn[k].defId

C16_StackedBelowOne ==
    mpc = "done" =>
        LET e == stackValues[1]
            N == Len(stackValues)
        IN  /\ FracLess(calcStackedEffect(e, N), Frac(1, 1))
            /\ N >= 2 => FracLess(calcStackedEffect(e, N - 1), calcStackedEffect(e, N))
            /\ N >= 2 => FracLess(FracAbs(finalVal), Frac(1, 1))

\* the parents share an ancestor, as the claim counts them
C17_Related(parentA, parentB) ==
    \/ \E id \in Range(parentA.ancestorIds) \cup Range(parentA.parentIds) :
          id \in Range(parentB.ancestorIds) \cup Range(parentB.parentIds) \cup {parentB.id}
    \/ parentA.id \in Range(parentB.ancestorIds) \cup Range(parentB.parentIds)

\* C17: detectInbreeding returns a coefficient in [0,1] and isInbred = TRUE
\* exactly when the parents share an ancestor (parentIds, ancestorIds, or one
\* parent being an ancestor of the other); without a shared ancestor it returns
\* isInbred = FALSE, coefficient 0, no fixed genes and no disease.
C17_InbredIffShared ==
    [][BreedInbreed =>
        /\ 0 <= inbreed'.coefficient.n
        /\ inbreed'.coefficient.d > 0
        /\ inbreed'.coefficient.n <= inbreed'.coefficient.d
        /\ inbreed'.isInbred <=> C17_Related(bsc.parentA, bsc.parentB)
        /\ ~C17_Related(bsc.parentA, bsc.parentB) =>
              /\ inbreed'.coefficient.n = 0
              /\ inbreed'.fixedGenes = {}
              /\ inbreed'.geneticDisease = "none"]_vars

\* a weapon bred with its own parent: one shared ancestor out of two
C17_Witness ==
    /\ bpc = "mutate"
    /\ bsc.parentA = ItemC /\ bsc.parentB = ItemA
    /\ inbreed.isInbred
    /\ inbreed.sharedAncestors = {"a"}
    /\ inbreed.coefficient = [n |-> 1, d |-> 2]

\* C18: selectParent on an empty population fails with an explicit error and
\* returns no item; on a non-empty population it returns a member of the
\* population, for every draw and every fitness, zero and negative included.
C18_SelectParentMemberOrError ==
    qpc = "done" =>
        IF population = << >>
        THEN selected.outcome = "thrown" /\ selected.message = "Population is empty"
        ELSE /\ selected.outcome = "returned"
             /\ \E k \in DOMAIN population : population[k] = selected.item

\* the call on the empty population throws
C18_Witness ==
    /\ qpc = "done"
    /\ population = << >>
    /\ selected = Thrown("Population is empty")

\* C19: simulate with battleCount = 0 returns wins = 0, losses = 0 and a
\* winRate that is a number (not NaN); for every battleCount >= 0 the result
\* has wins + losses = totalBattles.
C19_SimulateZeroBattles ==
    fpc = "done" =>
        /\ simResult.wins + simResult.losses = simResult.totalBattles
        /\ battleCount = 0 =>
              /\ simResult.wins = 0
              /\ simResult.losses = 0
              /\ simResult.winRate.kind = "number"

\* C20: for every BattleResult runBattle can return (win, loss, timeout, no
\* damage taken), killTimeScore, damageEfficiency, adaptationScore,
\* survivalScore and totalFitness of the breakdown all lie in [0, 100].
C20_BreakdownInRange ==
    kpc = "done" =>
        \A score \in { breakdown.killTimeScore, breakdown.damageEfficiency,
                       breakdown.adaptationScore, breakdown.survivalScore,
                       breakdown.totalFitness } :
            0 <= score /\ score <= 100000

\* a win in one second without damage taken: three scores at the cap of 100
C20_Witness ==
    /\ kpc = "done"
    /\ battleResult.won
    /\ battleResult.killTime = 100
    /\ battleResult.damageTaken = 0
    /\ battleResult.damageRatio = 999000
    /\ breakdown.killTimeScore = 100000
    /\ breakdown.damageEfficiency = 100000
    /\ breakdown.survivalScore = 100000

\* C21: in runBattle a combatant acts in a tick exactly when its cooldown less
\* 0.1 is <= 0, and its cooldown is then reset to its attackSpeed; where both
\* act in a tick the weapon's action is executed and logged before the
\* enemy's, and the log entries are in non-decreasing time order.
C21_CooldownOrder ==
    /\ [][(pc = "weapon" /\ pc' # "weapon") =>
            IF wCd - tickInterval <= 0
            THEN /\ Len(logs') > Len(logs)
                 /\ logs'[Len(logs) + 1] = LogEntry(time, "weapon", "action")
                 /\ wCd' = sc.w.attackSpeed
            ELSE logs' = logs /\ wCd' = wCd - tickInterval /\ wHp' = wHp /\ eHp' = eHp]_vars
    /\ [][(pc = "enemy" /\ pc' # "enemy") =>
            IF eCd - tickInterval <= 0
            THEN /\ Len(logs') > Len(logs)
                 /\ logs'[Len(logs) + 1] = LogEntry(time, "enemy", "action")
                 /\ eCd' = sc.e.attackSpeed
            ELSE logs' = logs /\ eCd' = eCd - tickInterval /\ wHp' = wHp /\ eHp' = eHp]_vars
    /\ [](\A i, j \in DOMAIN logs :
            i < j => /\ logs[i].time <= logs[j].time
                     /\ ~(/\ logs[i].time = logs[j].time
                          /\ logs[i] = LogEntry(logs[i].time, "enemy", "action")
                          /\ logs[j] = LogEntry(logs[j].time, "weapon", "action")))

\* a tick in which both acted: the weapon's entry directly before the enemy's
C21_Witness ==
    \E i \in DOMAIN logs :
        /\ i + 1 \in DOMAIN logs
        /\ logs[i] = LogEntry(time, "weapon", "action")
        /\ logs[i + 1] = LogEntry(time, "enemy", "action")
        /\ time > tickInterval

C28_HpWithinBounds ==
    /\ pc # "idle" =>
          /\ 0 <= wHp /\ wHp <= sc.w.maxHp
          /\ 0 <= eHp /\ eHp <= sc.e.maxHp
    /\ pc = "done" =>
          /\ 0 <= result.weaponHpRemaining /\ result.weaponHpRemaining <= sc.w.maxHp
          /\ 0 <= result.enemyHpRemaining /\ result.enemyHpRemaining <= sc.e.maxHp

\* a weapon given more HP than its maximum, at maximum after its own healing action
C28_Witness ==
    /\ pc = "done"
    /\ sc.initialWeaponHp > sc.w.maxHp
    /\ acts >= 2
    /\ result.weaponHpRemaining = sc.w.maxHp
    /\ \E i \in DOMAIN logs : logs[i] = LogEntry(logs[i].time, "weapon", "action")

\* C23: in breed every manually locked gene index is inherited from parent A:
\* for each i in lockedGenes with 0 <= i < 10 the child's genome[i] equals
\* parentA.genome[i], whatever crossover, inbreeding effects, mutation and
\* soft cap do.
C23_LockedGenesFromParentA ==
    (bpc = "done" /\ stageArg = 0) =>
        \A i \in bsc.lockedGenes :
            (0 <= i /\ i < GENOME_LENGTH) => child.genome[i] = bsc.parentA.genome[i]

\* the difference of the parents at a gene, the gene a disease rewrites, and
\* what holds of the fixed genes of an inbred breed apart from their value
C24_Diff(i) == AbsDiff(bsc.parentA.genome[i], bsc.parentB.genome[i])

C24_DiseaseGene(disease) ==
    CASE disease = "fragile_genome" -> 4
      [] disease = "attack_decay" -> 0
      [] disease = "element_instability" -> 2
      [] disease = "slow_metabolism" -> 1
      [] OTHER -> -1

C24_Selection ==
    /\ Cardinality(inbreed.fixedGenes) <= 3
    /\ Cardinality(inbreed.fixedGenes) * inbreed.coefficient.d
            < 4 * inbreed.coefficient.n + inbreed.coefficient.d
    /\ \A i \in inbreed.fixedGenes :
          /\ i \in GeneIdx
          /\ C24_Diff(i) < 150
          /\ \A j \in GeneIdx \ inbreed.fixedGenes : C24_Diff(j) < 150 => C24_Diff(i) <= C24_Diff(j)
    /\ inbreed.fixedGenes \cap mutated = {}

\* C24 (as stated): when two inbred parents are bred, at most
\* min(3, ceil(coefficient * 4)) genes are fixed, each with a parent difference
\* below 0.15, most similar first; mutation never changes a fixed gene, and each
\* fixed gene reaches the soft cap step as the average of the parents' values.
C24_FixedGenesAveraged ==
    (bpc = "done" /\ stageArg = 0 /\ inbreed.isInbred) =>
        /\ C24_Selection
        /\ \A i \in inbreed.fixedGenes :
              mutOut[i] = RoundDiv(bsc.parentA.genome[i] + bsc.parentB.genome[i], 2)

\* C24 (amended): the selection and the protection from mutation hold as
\* stated; a fixed gene reaches the soft cap step as the parents' average when
\* the coefficient is at most 0.5 and the rolled disease does not rewrite that
\* gene.
C24_FixedGenesAveragedUnlessBoosted ==
    (bpc = "done" /\ stageArg = 0 /\ inbreed.isInbred) =>
        /\ C24_Selection
        /\ \A i \in inbreed.fixedGenes :
              (/\ 2 * inbreed.coefficient.n <= inbreed.coefficient.d
               /\ C24_DiseaseGene(inbreed.geneticDisease) # i) =>
                  mutOut[i] = RoundDiv(bsc.parentA.genome[i] + bsc.parentB.genome[i], 2)

\* half-siblings: two genes fixed at the average while other genes mutated
C24_Witness ==
    /\ bpc = "done" /\ stageArg = 0
    /\ inbreed.isInbred
    /\ inbreed.coefficient = [n |-> 1, d |-> 2]
    /\ Cardinality(inbreed.fixedGenes) = 2
    /\ mutated # {}
    /\ \A i \in inbreed.fixedGenes :
          mutOut[i] = RoundDiv(bsc.parentA.genome[i] + bsc.parentB.genome[i], 2)

\* generations from an item up to one of its ancestors (99: not an ancestor)
RECURSIVE C25_Distance(_, _)
C25_Distance(id, target) ==
    IF id = target THEN 0
    ELSE IF herd[id].parentIds = << >> THEN 99
    ELSE 1 + Min(C25_Distance(herd[id].parentIds[1], target),
                 C25_Distance(herd[id].parentIds[2], target))

\* C25: buildAncestorIds returns at most 14 distinct ids that include both
\* parents, most recent first: no ancestor further from the child precedes a
\* nearer one, over any chain of successive breedings.
C25_AncestorsMostRecentFirst ==
    \A k \in DOMAIN herd :
        herd[k].parentIds # << >> =>
            LET list == herd[k].ancestorIds
            IN  /\ Len(list) <= 14
                /\ \A i, j \in DOMAIN list : i # j => list[i] # list[j]
                /\ herd[k].parentIds[1] \in Range(list)
                /\ herd[k].parentIds[2] \in Range(list)
                /\ \A i, j \in DOMAIN list :
                      i < j => C25_Distance(k, list[i]) <= C25_Distance(k, list[j])

\* the breedCount of the inventory item with this id, in the given inventory
C26_BreedCount(items, id) == (CHOOSE it \in items : it.id = id).breedCount

\* the last breedTransaction call was refused: nothing of the store moved
C26_Refused ==
    /\ txReturn' = FALSE
    /\ geneEnergy' = geneEnergy
    /\ materials' = materials
    /\ inventory' = inventory

\* the last breedTransaction call went through: energy, material, both
\* parents and the child change together, by exactly the amounts asked
C26_Committed ==
    LET args == txArgs' IN
    /\ txReturn' = TRUE
    /\ geneEnergy' = geneEnergy - args.cost
    /\ \A t \in MaterialTypes :
        materials'[t] = IF t = args.materialType THEN materials[t] - 1 ELSE materials[t]
    /\ Ids(inventory') = Ids(inventory) \cup {args.child.id}
    /\ Cardinality(inventory') = Cardinality(inventory) + 1
    /\ args.child \in inventory'
    /\ \A it \in inventory :
        IF it.id \in {args.parentAId, args.parentBId}
        THEN [it EXCEPT !.breedCount = @ + 1] \in inventory'
        ELSE it \in inventory'

\* C26: a breedTransaction call with too little energy or without the
\* required material returns false and leaves energy, materials and
\* inventory as they were; otherwise it returns true and, in the same store
\* update, takes exactly the cost from the energy and exactly one of the
\* required material, raises the breedCount of each parent by exactly one
\* and adds the child once; energy and material counts are never negative.
C26_BreedTransactionAtomic ==
    /\ [][txCalls' # txCalls =>
            IF \/ geneEnergy < txArgs'.cost
               \/ /\ txArgs'.materialType # "none"
                  /\ materials[txArgs'.materialType] < 1
            THEN C26_Refused
            ELSE C26_Committed]_vars
    /\ [](geneEnergy >= 0 /\ \A t \in MaterialTypes : materials[t] >= 0)

\* a transaction that needed a material went through after one was refused
\* for a missing material or for lack of energy
C26_Witness ==
    /\ txCalls = 2
    /\ txReturn = TRUE
    /\ txArgs.materialType # "none"
    /\ materials[txArgs.materialType] = 0
    /\ Cardinality(inventory) = Cardinality(StartInventory) + 1

\* the inventory item the equipped record was copied from
C29_EquippedItem == CHOOSE it \in inventory : it.id = equippedWeapon.id

C30_StatsOrderIndependent ==
    opc = "done" =>
        /\ orderStats.attack = orderStatsPermuted.attack
        /\ orderStats.defense = orderStatsPermuted.defense
        /\ orderStats.maxHp = orderStatsPermuted.maxHp
        /\ orderStats.attackSpeed = orderStatsPermuted.attackSpeed

\* C27: the stage counter has moved past a stage, and a stage is recorded
\* in maxClearedStage, only after a run of that stage in which every wave
\* was cleared; after a run that destroyed the weapon no tab change,
\* equip-and-resume or retry advances the stage.
C27_AdvanceOnlyAfterClear ==
    /\ \A s \in 1 .. (stage - 1) : s \in clearedRuns
    /\ maxClearedStage >= 1 => maxClearedStage \in clearedRuns

====
